---------------------------- MODULE Spec2Model ----------------------------
(***************************************************************************)
(* Model of the daveloper backend gateway: the Redis adapter               *)
(* (RedisService), the quota service (RateLimitService), the rate limit    *)
(* middleware, the cache service (CacheService), the session store         *)
(* (SessionService) and the chat gateway (ChatGateway).                    *)
(*                                                                         *)
(* Time is in milliseconds (Date.now()).  A Redis key is a triple          *)
(* <<namespace, identifier segments, windowStart>>; windowStart is NoWindow *)
(* for keys that carry no window suffix.  A Redis string value is a        *)
(* sequence of one-character strings.                                      *)
(***************************************************************************)
EXTENDS Integers, Sequences, FiniteSets, TLC

VARIABLES
    now,               \* Date.now(), ms
    redis,             \* the Redis server: key -> entry
    redisUp,           \* RedisService.client is connected and answers
    cfg,               \* configuration fixed at construction
    tasks,             \* in-flight async handlers: position and locals
    obs,               \* observations of completed operations (history)
    connectedClients,  \* ChatGateway.connectedClients of each gateway process
    sockets,           \* socket.io connections: state and emitted events
    channel            \* Redis pub/sub messages in flight to each subscriber

vars == <<now, redis, redisUp, cfg, tasks, obs, connectedClients, sockets, channel>>

-----------------------------------------------------------------------------
(* Bounds of the model *)

MaxTicks == 8
MaxExtraChecks == 2
MaxM == 3

TickMs == 500
NoWindow == 0 - 1
NoExpiry == 0 - 1
NoValue == 0 - 1

Min(a, b) == IF a <= b THEN a ELSE b
Max(a, b) == IF a >= b THEN a ELSE b

\* Math.ceil(a / b) for a >= 0, b > 0
CeilDiv(a, b) == (a + b - 1) \div b

-----------------------------------------------------------------------------
(* Decimal strings: Redis stores a counter as its decimal text *)

Digits == <<"0", "1", "2", "3", "4", "5", "6", "7", "8", "9">>

DigitVal(c) == CHOOSE d \in 0..9 : Digits[d + 1] = c

IsDigit(c) == \E d \in 0..9 : Digits[d + 1] = c

RECURSIVE IntToStr(_)
IntToStr(n) ==
    IF n < 10 THEN <<Digits[n + 1]>>
    ELSE Append(IntToStr(n \div 10), Digits[(n % 10) + 1])

\* parseInt(str): the value of the leading run of digits
RECURSIVE ParseDigits(_, _)
ParseDigits(s, acc) ==
    IF s = <<>> \/ ~IsDigit(Head(s)) THEN acc
    ELSE ParseDigits(Tail(s), acc * 10 + DigitVal(Head(s)))

parseInt(s) == ParseDigits(s, 0)

-----------------------------------------------------------------------------
(* The Redis server *)

StrEntry(v, e) == [type |-> "string", val |-> v, members |-> {}, exp |-> e]
SetEntry(m, e) == [type |-> "set", val |-> <<>>, members |-> m, exp |-> e]

\* a key is present while it has no expiry or its expiry lies in the future
Live(store, key, t) ==
    /\ key \in DOMAIN store
    /\ (store[key].exp = NoExpiry \/ t < store[key].exp)

Put(store, key, entry) ==
    [k \in DOMAIN store \cup {key} |-> IF k = key THEN entry ELSE store[k]]

Remove(store, ks) == [k \in DOMAIN store \ ks |-> store[k]]

\* Redis drops the keys whose time-to-live has elapsed
Purge(store, t) == Remove(store, {k \in DOMAIN store : ~Live(store, k, t)})

Nil == <<"nil">>

\* GET: the string value, or nil (a key of another type is an error, which
\* RedisService.get turns into null)
RedisGet(store, key, t) ==
    IF Live(store, key, t) /\ store[key].type = "string" THEN store[key].val ELSE Nil

\* INCR: atomic; creates the key at 1 with no expiry, else adds one and keeps
\* the key's expiry
RedisIncrLost(store, key, t) ==
    IF Live(store, key, t)
    THEN [store |-> store, ret |-> parseInt(store[key].val)]
    ELSE [store |-> Put(store, key, StrEntry(IntToStr(1), NoExpiry)), ret |-> 1]

RedisIncr(store, key, t) ==
    IF Live(store, key, t)
    THEN LET n == parseInt(store[key].val) + 1
         IN  [store |-> Put(store, key, [store[key] EXCEPT !.val = IntToStr(n)]),
              ret |-> n]
    ELSE [store |-> Put(store, key, StrEntry(IntToStr(1), NoExpiry)), ret |-> 1]

\* EXPIRE key seconds
RedisExpire(store, key, ttl, t) ==
    IF Live(store, key, t)
    THEN [store |-> Put(store, key, [store[key] EXCEPT !.exp = t + ttl * 1000]),
          ret |-> 1]
    ELSE [store |-> store, ret |-> 0]

\* SETEX key seconds value
RedisSetex(store, key, ttl, v, t) == Put(store, key, StrEntry(v, t + ttl * 1000))

\* SET key value: the key loses any expiry it had
RedisSet(store, key, v) == Put(store, key, StrEntry(v, NoExpiry))

RedisDel(store, ks, t) ==
    [store |-> Remove(store, ks),
     ret |-> Cardinality({k \in ks : Live(store, k, t)})]

-----------------------------------------------------------------------------
(* RedisService: every operation returns a neutral default when the client *)
(* is unavailable or the call fails                                        *)

RedisService_get(store, up, key, t) == IF up THEN RedisGet(store, key, t) ELSE Nil

RedisService_incr(store, up, key, t) ==
    IF up THEN RedisIncr(store, key, t) ELSE [store |-> store, ret |-> 0]

RedisService_expire(store, up, key, ttl, t) ==
    IF up THEN RedisExpire(store, key, ttl, t) ELSE [store |-> store, ret |-> 0]

RedisService_set(store, up, key, v, ttl, t) ==
    IF ~up THEN store
    ELSE IF ttl # 0 THEN RedisSetex(store, key, ttl, v, t)
    ELSE RedisSet(store, key, v)

RedisService_del(store, up, ks, t) ==
    IF up THEN RedisDel(store, ks, t) ELSE [store |-> store, ret |-> 0]

-----------------------------------------------------------------------------
(* RateLimitService *)

getWebSocketMessageKey(sessionId) == <<"rate_limit", <<"ws_msg", sessionId>>, NoWindow>>
getWebSocketConnectionKey(ip) == <<"rate_limit", <<"ws_conn", ip>>, NoWindow>>
getIPKey(ip) == <<"rate_limit", <<"ip", ip>>, NoWindow>>
getSessionKey(sessionId) == <<"rate_limit", <<"session", sessionId>>, NoWindow>>
getEndpointKey(endpoint, ip) == <<"rate_limit", <<"endpoint", endpoint, ip>>, NoWindow>>

\* `${key}:${windowStart}`
WindowKey(key, windowStart) == <<key[1], key[2], windowStart>>

\* the window start taken as the time of the call itself
WindowStartUnfloored(t, windowMs) == t

WindowStartOf(t, windowMs) == (t \div windowMs) * windowMs

getCurrentCount(store, up, key, windowStart, t) ==
    LET countStr == RedisService_get(store, up, WindowKey(key, windowStart), t)
    IN  IF countStr # Nil /\ countStr # <<>> THEN parseInt(countStr) ELSE 0

AllowedOffByOne(currentCount, maxRequests) == currentCount <= maxRequests

Allowed(currentCount, maxRequests) == currentCount < maxRequests

\* The result of checkRateLimit from the count read: tNow is the Date.now() of
\* the call
RateLimitResult(currentCount, rule, tNow) ==
    LET windowStart == WindowStartOf(tNow, rule.windowMs)
        windowEnd == windowStart + rule.windowMs
        allowed == Allowed(currentCount, rule.maxRequests)
        remainingRequests == Max(0, rule.maxRequests - currentCount - 1)
    IN  [allowed |-> allowed,
         totalRequests |-> rule.maxRequests,
         remainingRequests |-> IF allowed THEN remainingRequests ELSE 0,
         resetTime |-> CeilDiv(windowEnd, 1000),
         retryAfter |-> IF allowed THEN NoValue
                        ELSE CeilDiv(windowEnd - tNow, 1000)]

\* checkRateLimit rejecting when the store is unreachable
checkRateLimitFailClosed(store, up, key, rule, tNow, tRead) ==
    RateLimitResult(
        IF up
        THEN getCurrentCount(store, up, key, WindowStartOf(tNow, rule.windowMs), tRead)
        ELSE rule.maxRequests,
        rule, tNow)

checkRateLimit(store, up, key, rule, tNow, tRead) ==
    RateLimitResult(
        getCurrentCount(store, up, key, WindowStartOf(tNow, rule.windowMs), tRead),
        rule, tNow)

\* Math.ceil(windowMs / 1000) + 1
WindowTtl(windowMs) == CeilDiv(windowMs, 1000) + 1

\* incrementCount called at time t for the window computed by recordRequest
incrementCount(store, up, key, windowStart, windowMs, t) ==
    LET windowKey == WindowKey(key, windowStart)
        inc == RedisService_incr(store, up, windowKey, t)
    IN  IF inc.ret = 1
        THEN RedisService_expire(inc.store, up, windowKey, WindowTtl(windowMs), t).store
        ELSE inc.store

\* recordRequest that records nothing
recordRequestNothing(store, up, key, rule, t) == store

recordRequest(store, up, key, rule, t) ==
    incrementCount(store, up, key, WindowStartOf(t, rule.windowMs), rule.windowMs, t)

NoResult ==
    [allowed |-> FALSE, totalRequests |-> 0, remainingRequests |-> 0,
     resetTime |-> 0, retryAfter |-> NoValue]

-----------------------------------------------------------------------------
(* Requests on one quota key handled one at a time: checkRateLimit, then   *)
(* recordRequest when admitted (ChatGateway.handleConnection, lines        *)
(* 139-154, is such a sequence)                                            *)

QS_Key == getWebSocketConnectionKey("a1")

QS_Rules == [windowMs : {1000, 1500}, maxRequests : 1..MaxM]

QS_Init ==
    /\ now = 0
    /\ redis = <<>>
    /\ redisUp = TRUE
    /\ cfg \in [rule : QS_Rules]
    /\ tasks = <<>>
    /\ obs = [has |-> FALSE, checks |-> 0, windowStart |-> 0, res |-> NoResult,
              rejectedEarlier |-> FALSE]
    /\ connectedClients = <<>>
    /\ sockets = <<>>
    /\ channel = <<>>

QS_Request ==
    LET rule == cfg.rule
        ws == WindowStartOf(now, rule.windowMs)
        sameWindow == obs.has /\ obs.windowStart = ws
        res == checkRateLimit(redis, redisUp, QS_Key, rule, now, now)
    IN  /\ (sameWindow => obs.checks < rule.maxRequests + MaxExtraChecks)
        /\ redis' = IF res.allowed
                    THEN recordRequest(redis, redisUp, QS_Key, rule, now)
                    ELSE redis
        /\ obs' = [has |-> TRUE,
                   checks |-> IF sameWindow THEN obs.checks + 1 ELSE 1,
                   windowStart |-> ws,
                   res |-> res,
                   rejectedEarlier |-> obs.rejectedEarlier
                                       \/ (obs.has /\ ~obs.res.allowed)]
        /\ UNCHANGED <<now, redisUp, cfg, tasks, connectedClients, sockets, channel>>

Tick ==
    /\ now < MaxTicks * TickMs
    /\ now' = now + TickMs
    /\ redis' = Purge(redis, now')

QS_Tick ==
    /\ Tick
    /\ UNCHANGED <<redisUp, cfg, tasks, obs, connectedClients, sockets, channel>>

QS_Next == QS_Request \/ QS_Tick

SpecQuotaSeq == QS_Init /\ [][QS_Next]_vars

\* C1: with requests on one key handled one at a time, the k-th check made in
\* a window is admitted exactly when k <= maxRequests (so the first m are
\* admitted, the (m+1)th is rejected and the first of the next window is
\* admitted again), and a rejection carries retryAfter > 0.
C1_QuotaAdmission ==
    obs.has =>
        /\ obs.res.allowed <=> obs.checks <= cfg.rule.maxRequests
        /\ ~obs.res.allowed => obs.res.retryAfter > 0
        /\ obs.res.allowed => obs.res.retryAfter = NoValue

\* a first check of a later window is admitted after the (m+1)th check of an
\* earlier window was rejected
C1_Witness ==
    /\ obs.has
    /\ obs.windowStart > 0
    /\ obs.checks = 1
    /\ obs.res.allowed
    /\ obs.rejectedEarlier

-----------------------------------------------------------------------------
(* Concurrent check-then-record sequences on one quota key, issued by      *)
(* handlers of one or several gateway processes                            *)
(* (ChatGateway.handleChatMessage lines 232-240, RateLimitMiddleware.use   *)
(* lines 41-94).  Every await of the handler is a separate step.           *)

MaxReqs == 2
QC_MaxTicks == 4

QC_Procs == {"g1", "g2"}

QC_Key == getWebSocketMessageKey("s1")

QC_Rules == [windowMs : {1000}, maxRequests : 1..2]

QC_Windows == {k * 1000 : k \in 0..((QC_MaxTicks * TickMs) \div 1000)}

QC_Idle == [pc |-> "idle", tNow |-> 0, windowStart |-> 0, reqs |-> 0]

QC_Init ==
    /\ now = 0
    /\ redis = <<>>
    /\ redisUp = TRUE
    /\ cfg \in [rule : QC_Rules]
    /\ tasks = [p \in QC_Procs |-> QC_Idle]
    /\ obs = [admitted |-> [ws \in QC_Windows |-> 0],
              incrs |-> [ws \in QC_Windows |-> 0]]
    /\ connectedClients = <<>>
    /\ sockets = <<>>
    /\ channel = <<>>

\* checkRateLimit, lines 784-787: Date.now() and the window of the check
QC_CheckStart(p) ==
    /\ tasks[p].pc = "idle"
    /\ tasks[p].reqs < MaxReqs
    /\ tasks' = [tasks EXCEPT ![p] = [pc |-> "get", tNow |-> now,
                                      windowStart |-> WindowStartOf(now, cfg.rule.windowMs),
                                      reqs |-> @.reqs + 1]]
    /\ UNCHANGED <<now, redis, redisUp, cfg, obs, connectedClients, sockets, channel>>

\* checkRateLimit, lines 790-810: the count is read and the decision made
QC_CheckGet(p) ==
    LET res == checkRateLimit(redis, redisUp, QC_Key, cfg.rule, tasks[p].tNow, now)
        ws == tasks[p].windowStart
    IN  /\ tasks[p].pc = "get"
        /\ tasks' = [tasks EXCEPT ![p].pc = IF res.allowed THEN "record" ELSE "idle"]
        /\ obs' = IF res.allowed
                  THEN [obs EXCEPT !.admitted[ws] = @ + 1]
                  ELSE obs
        /\ UNCHANGED <<now, redis, redisUp, cfg, connectedClients, sockets, channel>>

\* recordRequest, lines 829-830: Date.now() and the window of the record
QC_RecordStart(p) ==
    /\ tasks[p].pc = "record"
    /\ tasks' = [tasks EXCEPT ![p].pc = "incr",
                              ![p].windowStart = WindowStartOf(now, cfg.rule.windowMs)]
    /\ UNCHANGED <<now, redis, redisUp, cfg, obs, connectedClients, sockets, channel>>

\* incrementCount, line 1087: the atomic increment
QC_Incr(p) ==
    LET ws == tasks[p].windowStart
        inc == RedisService_incr(redis, redisUp, WindowKey(QC_Key, ws), now)
    IN  /\ tasks[p].pc = "incr"
        /\ redis' = inc.store
        /\ tasks' = [tasks EXCEPT ![p].pc = IF inc.ret = 1 THEN "expire" ELSE "idle"]
        /\ obs' = [obs EXCEPT !.incrs[ws] = @ + 1]
        /\ UNCHANGED <<now, redisUp, cfg, connectedClients, sockets, channel>>

\* incrementCount, lines 1090-1092: the expiry set after the first increment
QC_Expire(p) ==
    LET ws == tasks[p].windowStart
    IN  /\ tasks[p].pc = "expire"
        /\ redis' = RedisService_expire(redis, redisUp, WindowKey(QC_Key, ws),
                                        WindowTtl(cfg.rule.windowMs), now).store
        /\ tasks' = [tasks EXCEPT ![p].pc = "idle"]
        /\ UNCHANGED <<now, redisUp, cfg, obs, connectedClients, sockets, channel>>

QC_Tick ==
    /\ now < QC_MaxTicks * TickMs
    /\ Tick
    /\ UNCHANGED <<redisUp, cfg, tasks, obs, connectedClients, sockets, channel>>

QC_Next ==
    \/ \E p \in QC_Procs : QC_CheckStart(p)
    \/ \E p \in QC_Procs : QC_CheckGet(p)
    \/ \E p \in QC_Procs : QC_RecordStart(p)
    \/ \E p \in QC_Procs : QC_Incr(p)
    \/ \E p \in QC_Procs : QC_Expire(p)
    \/ QC_Tick

SpecQuotaConc == QC_Init /\ [][QC_Next]_vars

QC_InWindow(ws) == ws <= now /\ now < ws + cfg.rule.windowMs

QC_Count(store, ws, t) == getCurrentCount(store, TRUE, QC_Key, ws, t)

\* C9: in no window does the number of checks decided 'allowed' exceed the
\* maximum of the rule, whatever the interleaving of concurrent
\* check-then-record sequences.
C9_AdmittedWithinMax ==
    \A ws \in QC_Windows : obs.admitted[ws] <= cfg.rule.maxRequests

\* C10: while a window lasts, its stored counter equals the number of
\* increments issued by recordRequest on it (none is lost), and no step makes
\* the counter of the window smaller.
C10_CounterExact ==
    /\ [](\A ws \in QC_Windows :
            QC_InWindow(ws) => QC_Count(redis, ws, now) = obs.incrs[ws])
    /\ [][\A ws \in QC_Windows :
            (ws <= now' /\ now' < ws + cfg.rule.windowMs)
                => QC_Count(redis', ws, now') >= QC_Count(redis, ws, now)]_vars

\* two records have incremented the counter of the running window while one of
\* them has not yet set the expiry
C10_Witness ==
    \E ws \in QC_Windows :
        /\ QC_InWindow(ws)
        /\ obs.incrs[ws] >= 2
        /\ QC_Count(redis, ws, now) >= 2
        /\ \E p \in QC_Procs : tasks[p].pc = "expire"


-----------------------------------------------------------------------------
(* RateLimitMiddleware.use: the request path.  The address, session and    *)
(* endpoint rules are checked, the results are combined, the composite     *)
(* result decides, and an admitted request is recorded under all rules.    *)

MW_MaxTicks == 3

MW_Addresses == {"a1", "127.0.0.1"}
MW_Sessions == {"none", "s1"}
MW_Endpoint == "POST /agent/chat"

whitelistedIPs == {"127.0.0.1", "::1"}

isIPWhitelisted(ip) == ip \in whitelistedIPs

MW_Configs ==
    [perIP : [windowMs : {1500}, maxRequests : {2, 3}],
     perSession : [windowMs : {1000}, maxRequests : {1, 2}],
     endpoint : [windowMs : {1000}, maxRequests : {3}]]

\* the reducer of lines 50-61
MoreRestrictive(prev, current) ==
    IF ~prev.allowed \/ ~current.allowed
    THEN (IF prev.remainingRequests <= current.remainingRequests THEN prev ELSE current)
    ELSE (IF prev.remainingRequests <= current.remainingRequests THEN prev ELSE current)

\* results.reduce(...) without an initial value: the first element starts
RECURSIVE ReduceFrom(_, _)
ReduceFrom(acc, rest) ==
    IF rest = <<>> THEN acc
    ELSE ReduceFrom(MoreRestrictive(acc, Head(rest)), Tail(rest))

mostRestrictiveOf(results) == ReduceFrom(Head(results), Tail(results))

MW_Init ==
    /\ now = 0
    /\ redis = <<>>
    /\ redisUp = TRUE
    /\ cfg \in MW_Configs
    /\ tasks = <<>>
    /\ obs = [has |-> FALSE, results |-> <<>>, composite |-> NoResult, status |-> 0]
    /\ connectedClients = <<>>
    /\ sockets = <<>>
    /\ channel = <<>>

\* lines 29-33: a whitelisted address passes unchecked
MW_UseWhitelisted(ip) ==
    /\ isIPWhitelisted(ip)
    /\ obs' = [has |-> FALSE, results |-> <<>>, composite |-> NoResult, status |-> 200]
    /\ UNCHANGED <<now, redis, redisUp, cfg, tasks, connectedClients, sockets, channel>>

\* lines 41-94
MW_Use(ip, sessionId) ==
    LET ipResult == checkRateLimit(redis, redisUp, getIPKey(ip), cfg.perIP, now, now)
        sessionResult ==
            checkRateLimit(redis, redisUp, getSessionKey(sessionId), cfg.perSession, now, now)
        endpointResult ==
            checkRateLimit(redis, redisUp, getEndpointKey(MW_Endpoint, ip),
                           cfg.endpoint, now, now)
        results == IF sessionId = "none"
                   THEN <<ipResult, endpointResult>>
                   ELSE <<ipResult, sessionResult, endpointResult>>
        mostRestrictive == mostRestrictiveOf(results)
        r1 == recordRequest(redis, redisUp, getIPKey(ip), cfg.perIP, now)
        r2 == recordRequest(r1, redisUp, getEndpointKey(MW_Endpoint, ip), cfg.endpoint, now)
        r3 == IF sessionId = "none" THEN r2
              ELSE recordRequest(r2, redisUp, getSessionKey(sessionId), cfg.perSession, now)
    IN  /\ ~isIPWhitelisted(ip)
        /\ redis' = IF mostRestrictive.allowed THEN r3 ELSE redis
        /\ obs' = [has |-> TRUE, results |-> results, composite |-> mostRestrictive,
                   status |-> IF mostRestrictive.allowed THEN 200 ELSE 429]
        /\ UNCHANGED <<now, redisUp, cfg, tasks, connectedClients, sockets, channel>>

MW_Tick ==
    /\ now < MW_MaxTicks * TickMs
    /\ Tick
    /\ UNCHANGED <<redisUp, cfg, tasks, obs, connectedClients, sockets, channel>>

MW_Next ==
    \/ \E ip \in MW_Addresses : MW_UseWhitelisted(ip)
    \/ \E ip \in MW_Addresses, sessionId \in MW_Sessions : MW_Use(ip, sessionId)
    \/ MW_Tick

SpecMiddleware == MW_Init /\ [][MW_Next]_vars

MW_Rejecting(results) == {i \in DOMAIN results : ~results[i].allowed}

\* C2: the composite result rejects whenever at least one individual result
\* rejects, and otherwise it is the admitting result with the fewest
\* remaining requests.
C2_MostRestrictive ==
    obs.has =>
        IF MW_Rejecting(obs.results) # {}
        THEN ~obs.composite.allowed
        ELSE /\ obs.composite.allowed
             /\ \A i \in DOMAIN obs.results :
                    obs.composite.remainingRequests <= obs.results[i].remainingRequests


-----------------------------------------------------------------------------
(* CacheService.  A JavaScript value is a string or a number; JSON text is *)
(* a sequence of characters.                                               *)

MaxStrLen == 2
CA_MaxTicks == 3

JsString(str) == [t |-> "string", s |-> str, n |-> 0]
JsNumber(num) == [t |-> "number", s |-> <<>>, n |-> num]
JsNull == [t |-> "null", s |-> <<>>, n |-> 0]

Quote == "\""

\* JSON.stringify of a string or a number
JSONstringify(v) ==
    IF v.t = "string" THEN <<Quote>> \o v.s \o <<Quote>>
    ELSE IF v.t = "number" THEN IntToStr(v.n)
    ELSE <<"n", "u", "l", "l">>

\* JSON.parse of such a text
JSONparse(text) ==
    IF text # <<>> /\ Head(text) = Quote
    THEN JsString(SubSeq(text, 2, Len(text) - 1))
    ELSE IF text # <<>> /\ IsDigit(Head(text)) THEN JsNumber(parseInt(text))
    ELSE JsNull

\* Buffer.byteLength(data, 'utf8')
getSize(data) == Len(data)

RECURSIVE RunLength(_, _)
RunLength(data, c) ==
    IF data = <<>> \/ Head(data) # c THEN 0
    ELSE 1 + RunLength(Tail(data), c)

\* compress: gzip then base64, a reversible transform of the text whose output
\* may be shorter or longer than its input; modelled as run-length coding
\* (character, run length 1..9)
RECURSIVE compress(_)
compress(data) ==
    IF data = <<>> THEN <<>>
    ELSE LET c == Head(data)
             n == Min(9, RunLength(data, c))
         IN  <<c, Digits[n + 1]>> \o compress(SubSeq(data, n + 1, Len(data)))

\* decompress: base64 decoding then gunzip, the inverse of compress
RECURSIVE decompress(_)
decompress(data) ==
    IF Len(data) < 2 THEN <<>>
    ELSE [i \in 1..DigitVal(data[2]) |-> data[1]]
         \o decompress(SubSeq(data, 3, Len(data)))

\* `${CACHE_VERSION}:${key}`, a key being its ':'-separated segments
CacheKey(key) == <<"1.0", key, NoWindow>>

\* JSON.stringify(entry) of a CacheEntry and its JSON.parse
CacheEntryText(entry) ==
    <<"entry", JSONstringify(entry.value), entry.ttl, entry.compressed, entry.size,
      entry.createdAt, entry.lastAccessed>>

CacheEntryParse(text) ==
    [value |-> JSONparse(text[2]), ttl |-> text[3], compressed |-> text[4],
     size |-> text[5], createdAt |-> text[6], lastAccessed |-> text[7]]

\* The client object is assigned before connect() is awaited, so with the
\* store unreachable the client is present and its calls reject.
\* getFromRedis: null when the client is missing or the call fails
getFromRedis(store, up, key, t) == IF up THEN RedisGet(store, key, t) ELSE Nil

\* setToRedis: throws when the client is missing or the call fails
setToRedis(store, up, key, v, ttl, t) ==
    IF up THEN [store |-> RedisSetex(store, key, ttl, v, t), threw |-> FALSE]
    ELSE [store |-> store, threw |-> TRUE]

\* deleteFromRedis: rethrows when the call fails
deleteFromRedis(store, up, key, t) ==
    IF up THEN [store |-> RedisDel(store, {key}, t).store, threw |-> FALSE]
    ELSE [store |-> store, threw |-> TRUE]

\* isExpired measuring the age from the last access
isExpiredSinceAccess(entry, t) == (t - entry.lastAccessed) > entry.ttl * 1000

\* isExpired(entry)
isExpired(entry, t) == (t - entry.createdAt) > entry.ttl * 1000

\* CacheService.set: the new store and whether the call threw
CacheService_set(store, up, config, key, value, ttl, t) ==
    LET finalTtl == IF ttl # 0 THEN ttl ELSE config.defaultTtl
        text == JSONstringify(value)
        size == getSize(text)
        doCompress == config.enableCompression /\ size > config.compressionThreshold
        serializedValue == IF doCompress THEN JsString(compress(text)) ELSE value
        entry == [value |-> serializedValue,
                  ttl |-> finalTtl,
                  compressed |-> doCompress,
                  size |-> IF doCompress THEN getSize(compress(text)) ELSE size,
                  createdAt |-> t,
                  lastAccessed |-> t]
    IN  IF size > config.maxValueSize
        THEN [store |-> store, threw |-> TRUE]
        ELSE setToRedis(store, up, CacheKey(key), CacheEntryText(entry), finalTtl, t)

\* CacheService.delete
CacheService_delete(store, up, key, t) == deleteFromRedis(store, up, CacheKey(key), t)

\* CacheService.get: the new store, whether it was a hit, the value returned
\* (JsNull on a miss), and whether the entry was found expired (lines 370-375)
CacheService_get(store, up, key, t) ==
    LET cached == getFromRedis(store, up, CacheKey(key), t)
        entry == CacheEntryParse(cached)
        touched == [entry EXCEPT !.lastAccessed = t]
        wr == setToRedis(store, up, CacheKey(key), CacheEntryText(touched), entry.ttl, t)
        value == IF entry.compressed /\ entry.value.t = "string"
                 THEN JsString(decompress(entry.value.s))
                 ELSE entry.value
    IN  IF cached = Nil
        THEN [store |-> store, hit |-> FALSE, value |-> JsNull, hadExpired |-> FALSE]
        ELSE IF isExpired(entry, t)
        THEN [store |-> CacheService_delete(store, up, key, t).store,
              hit |-> FALSE, value |-> JsNull, hadExpired |-> TRUE]
        ELSE IF wr.threw
        THEN [store |-> store, hit |-> FALSE, value |-> JsNull, hadExpired |-> FALSE]
        ELSE [store |-> wr.store, hit |-> TRUE, value |-> value, hadExpired |-> FALSE]

CA_Keys == {<<"a", "1">>}

RECURSIVE StringsUpTo(_)
StringsUpTo(n) ==
    IF n = 0 THEN {<<>>}
    ELSE LET shorter == StringsUpTo(n - 1)
         IN  shorter \cup {Append(str, c) : str \in shorter, c \in {"a", "b"}}

CA_Values ==
    {JsString(str) : str \in StringsUpTo(MaxStrLen)} \cup {JsNumber(12345), JsNumber(111111)}

CA_Ttls == {0, 1}

CA_Configs ==
    [defaultTtl : {2}, enableCompression : {TRUE}, compressionThreshold : {3},
     maxValueSize : {4, 5}]

CA_NoObs == [op |-> "none", key |-> <<>>, ok |-> FALSE, got |-> JsNull,
             hasWant |-> FALSE, want |-> JsNull, arg |-> JsNull,
             pattern |-> <<>>, ret |-> 0, expired |-> FALSE]

CA_Init ==
    /\ now = 0
    /\ redis = <<>>
    /\ redisUp \in BOOLEAN
    /\ cfg \in CA_Configs
    /\ tasks = <<>>
    /\ obs = CA_NoObs
    /\ connectedClients = <<>>
    /\ sockets = <<>>
    /\ channel = <<>>

\* obs.want is the value of an accepted set while no other operation has
\* followed it; a get of the same key carries it along with what it returned
CA_Set(key, value, ttl) ==
    LET r == CacheService_set(redis, redisUp, cfg, key, value, ttl, now)
    IN  /\ redis' = r.store
        /\ obs' = [op |-> "set", key |-> key, ok |-> ~r.threw, got |-> JsNull,
                   hasWant |-> ~r.threw, want |-> IF r.threw THEN JsNull ELSE value,
                   arg |-> value, pattern |-> <<>>, ret |-> 0, expired |-> FALSE]
        /\ UNCHANGED <<now, redisUp, cfg, tasks, connectedClients, sockets, channel>>

CA_Get(key) ==
    LET r == CacheService_get(redis, redisUp, key, now)
        follows == obs.op = "set" /\ obs.ok /\ obs.key = key
    IN  /\ redis' = r.store
        /\ obs' = [op |-> "get", key |-> key, ok |-> r.hit, got |-> r.value,
                   hasWant |-> follows, want |-> IF follows THEN obs.want ELSE JsNull,
                   arg |-> JsNull, pattern |-> <<>>, ret |-> 0,
                   expired |-> r.hadExpired]
        /\ UNCHANGED <<now, redisUp, cfg, tasks, connectedClients, sockets, channel>>

CA_Delete(key) ==
    LET r == CacheService_delete(redis, redisUp, key, now)
    IN  /\ redis' = r.store
        /\ obs' = [CA_NoObs EXCEPT !.op = "delete", !.key = key, !.ok = ~r.threw]
        /\ UNCHANGED <<now, redisUp, cfg, tasks, connectedClients, sockets, channel>>

CA_Tick ==
    /\ now < CA_MaxTicks * TickMs
    /\ Tick
    /\ obs' = [CA_NoObs EXCEPT !.op = "tick"]
    /\ UNCHANGED <<redisUp, cfg, tasks, connectedClients, sockets, channel>>

CA_Next ==
    \/ \E key \in CA_Keys, value \in CA_Values, ttl \in CA_Ttls : CA_Set(key, value, ttl)
    \/ \E key \in CA_Keys : CA_Get(key)
    \/ \E key \in CA_Keys : CA_Delete(key)
    \/ CA_Tick

SpecCache == CA_Init /\ [][CA_Next]_vars

\* C3: a get that immediately follows an accepted set of the same key returns
\* a value equal to the value set, whether the entry was stored compressed or
\* not.
C3_RoundTrip ==
    (obs.op = "get" /\ obs.hasWant) => (obs.ok /\ obs.got = obs.want)

\* C14: while the store is unreachable no CacheService operation raises to its
\* caller: get returns null, and set (of a value within the size limit) and
\* delete complete as no-ops.
C14_CacheNeverRaises ==
    ~redisUp =>
        /\ redis = <<>>
        /\ obs.op = "get" => (~obs.ok /\ obs.got = JsNull)
        /\ obs.op = "delete" => obs.ok
        /\ (obs.op = "set" /\ getSize(JSONstringify(obs.arg)) <= cfg.maxValueSize) => obs.ok

C21_Step ==
    (/\ obs'.op = "get"
     /\ CacheKey(obs'.key) \in DOMAIN redis
     /\ now - CacheEntryParse(redis[CacheKey(obs'.key)].val).createdAt
            > CacheEntryParse(redis[CacheKey(obs'.key)].val).ttl * 1000)
        => /\ ~obs'.ok
           /\ obs'.got = JsNull
           /\ CacheKey(obs'.key) \notin DOMAIN redis'

\* C21: a get of a key whose entry is older than its time-to-live (now -
\* createdAt > ttl seconds) is a miss and removes the entry, whatever expiry
\* Redis holds for the key after earlier gets refreshed lastAccessed and
\* re-armed it.
C21_NoStaleHit == [][C21_Step]_vars

\* a get found an entry that Redis still held and that was older than its
\* time-to-live: it answered null and the entry is gone
C21_Witness ==
    /\ obs.op = "get" /\ obs.expired /\ ~obs.ok /\ obs.got = JsNull
    /\ CacheKey(obs.key) \notin DOMAIN redis

\* the size of the value as set would store it: of its JSON text, or of the
\* compressed text when the text is longer than the compression threshold
CA_StoredSize(value) ==
    IF cfg.enableCompression /\ getSize(JSONstringify(value)) > cfg.compressionThreshold
    THEN getSize(compress(JSONstringify(value)))
    ELSE getSize(JSONstringify(value))

\* C20: the size of every stored cache entry, measured after the compression
\* step, is at most maxValueSize; a set whose possibly compressed size exceeds
\* maxValueSize fails, and a set whose possibly compressed size is within
\* maxValueSize is not rejected for its size.
C20_SizeWithinMax ==
    /\ \A k \in DOMAIN redis :
          k[1] = "1.0" => CacheEntryParse(redis[k].val).size <= cfg.maxValueSize
    /\ (obs.op = "set" /\ CA_StoredSize(obs.arg) > cfg.maxValueSize) => ~obs.ok
    /\ (obs.op = "set" /\ redisUp /\ CA_StoredSize(obs.arg) <= cfg.maxValueSize) => obs.ok

-----------------------------------------------------------------------------
(* Redis sets and SETEX as RedisService exposes them to SessionService *)

RedisService_setWithExpiry(store, up, key, v, ttl, t) ==
    IF up THEN RedisSetex(store, key, ttl, v, t) ELSE store

RedisService_smembers(store, up, key, t) ==
    IF up /\ Live(store, key, t) /\ store[key].type = "set"
    THEN store[key].members ELSE {}

\* SADD creates the set without expiry, or adds to it keeping its expiry
RedisService_sadd(store, up, key, member, t) ==
    IF ~up THEN store
    ELSE IF ~Live(store, key, t) THEN Put(store, key, SetEntry({member}, NoExpiry))
    ELSE IF store[key].type = "set"
    THEN Put(store, key, [store[key] EXCEPT !.members = @ \cup {member}])
    ELSE store

\* SREM removes the member; Redis drops a set that becomes empty
RedisService_srem(store, up, key, member, t) ==
    IF up /\ Live(store, key, t) /\ store[key].type = "set"
    THEN IF store[key].members \ {member} = {}
         THEN Remove(store, {key})
         ELSE Put(store, key, [store[key] EXCEPT !.members = @ \ {member}])
    ELSE store

-----------------------------------------------------------------------------
(* SessionService *)

\* `session:${sessionId}` and `session:ip:${ipAddress}`
SessionService_getSessionKey(sessionId) == <<"session", <<sessionId>>, NoWindow>>
SessionService_getIPKey(ip) == <<"session", <<"ip", ip>>, NoWindow>>

NoSession ==
    [sessionId |-> "none", createdAt |-> 0, lastActivity |-> 0, ipAddress |-> "none",
     userAgent |-> "none", messageCount |-> 0, isActive |-> FALSE]

\* JSON.stringify(sessionData) and JSON.parse of it
SessionText(d) ==
    <<"session", d.sessionId, d.createdAt, d.lastActivity, d.ipAddress, d.userAgent,
      d.messageCount, d.isActive>>

SessionParse(text) ==
    [sessionId |-> text[2], createdAt |-> text[3], lastActivity |-> text[4],
     ipAddress |-> text[5], userAgent |-> text[6], messageCount |-> text[7],
     isActive |-> text[8]]

\* What one pass of getSession (lines 98-112) finds: no record, a record that
\* is within its time-to-live, or a record that is still stored but whose
\* lastActivity is older than the time-to-live
SessionLookup(store, up, config, sessionId, t) ==
    LET Found(str) ==
            IF str = Nil THEN [kind |-> "absent", session |-> NoSession]
            ELSE IF t - SessionParse(str).lastActivity > config.ttl * 1000
            THEN [kind |-> "expired", session |-> SessionParse(str)]
            ELSE [kind |-> "valid", session |-> SessionParse(str)]
    IN  Found(RedisService_get(store, up, SessionService_getSessionKey(sessionId), t))

\* getSession.  On an expired record getSession awaits deleteSession, which
\* first awaits getSession of the same id (line 164), which finds the same
\* expired record: the calls recurse, reading only, for as long as the record
\* stays stored and expired (spins).  The call returns once a read finds the
\* record gone or replaced.
getSession(store, up, config, sessionId, t) ==
    LET Result(found) ==
            [store |-> store,
             found |-> found.kind = "valid",
             session |-> IF found.kind = "valid" THEN found.session ELSE NoSession,
             spins |-> found.kind = "expired"]
    IN  Result(SessionLookup(store, up, config, sessionId, t))

\* deleteSession, lines 162-180
deleteSession(store, up, config, sessionId, t) ==
    LET Deleted(got, del) == [store |-> del.store, ret |-> del.ret > 0, spins |-> got.spins]
        Result(got) ==
            Deleted(got,
                RedisService_del(
                    IF got.found
                    THEN RedisService_srem(store, up,
                             SessionService_getIPKey(got.session.ipAddress), sessionId, t)
                    ELSE store,
                    up, {SessionService_getSessionKey(sessionId)}, t))
    IN  Result(getSession(store, up, config, sessionId, t))

\* getSessionCountByIP, lines 315-336: the ids of the index whose session is
\* still there are counted, the others are removed from the index
getSessionCountByIP(store, up, config, ip, t) ==
    LET ipKey == SessionService_getIPKey(ip)
        Result(sessionIds, valid) ==
            [store |-> IF up /\ Live(store, ipKey, t) /\ valid # sessionIds
                       THEN IF valid = {} THEN Remove(store, {ipKey})
                            ELSE Put(store, ipKey,
                                     [store[ipKey] EXCEPT !.members = valid])
                       ELSE store,
             count |-> Cardinality(valid),
             spins |-> \E id \in sessionIds :
                          SessionLookup(store, up, config, id, t).kind = "expired"]
        Count(sessionIds) ==
            Result(sessionIds,
                   {id \in sessionIds :
                       SessionLookup(store, up, config, id, t).kind = "valid"})
    IN  Count(RedisService_smembers(store, up, ipKey, t))

\* createSession, lines 63-83, once the count check has passed: the record is
\* written with the time-to-live, the id is added to the address index and the
\* index is given the time-to-live
NewSession(sessionId, ip, t) ==
    [sessionId |-> sessionId, createdAt |-> t, lastActivity |-> t, ipAddress |-> ip,
     userAgent |-> "ua", messageCount |-> 0, isActive |-> TRUE]

createSessionWrite(store, up, config, sessionData, t) ==
    RedisService_expire(
        RedisService_sadd(
            RedisService_setWithExpiry(store, up,
                SessionService_getSessionKey(sessionData.sessionId),
                SessionText(sessionData), config.ttl, t),
            up, SessionService_getIPKey(sessionData.ipAddress), sessionData.sessionId, t),
        up, SessionService_getIPKey(sessionData.ipAddress), config.ttl, t).store

\* createSession rejecting only above the maximum
createSessionAboveMax(store, up, config, sessionId, ip, t) ==
    LET Result(cnt) ==
            IF cnt.count > config.maxSessionsPerIP
            THEN [store |-> cnt.store, threw |-> TRUE, spins |-> cnt.spins,
                  session |-> NoSession]
            ELSE [store |-> createSessionWrite(cnt.store, up, config,
                                               NewSession(sessionId, ip, t), t),
                  threw |-> FALSE, spins |-> cnt.spins,
                  session |-> NewSession(sessionId, ip, t)]
    IN  Result(getSessionCountByIP(store, up, config, ip, t))

\* createSession, lines 53-91
createSession(store, up, config, sessionId, ip, t) ==
    LET Result(cnt) ==
            IF cnt.count >= config.maxSessionsPerIP
            THEN [store |-> cnt.store, threw |-> TRUE, spins |-> cnt.spins,
                  session |-> NoSession]
            ELSE [store |-> createSessionWrite(cnt.store, up, config,
                                               NewSession(sessionId, ip, t), t),
                  threw |-> FALSE, spins |-> cnt.spins,
                  session |-> NewSession(sessionId, ip, t)]
    IN  Result(getSessionCountByIP(store, up, config, ip, t))

\* updateSession rewriting the record under the expiry it already has
updateSessionWriteKeepTtl(store, up, config, sessionData, messageCount, t) ==
    IF up /\ Live(store, SessionService_getSessionKey(sessionData.sessionId), t)
    THEN Put(store, SessionService_getSessionKey(sessionData.sessionId),
             StrEntry(SessionText([sessionData EXCEPT !.messageCount = messageCount,
                                                      !.lastActivity = t]),
                      store[SessionService_getSessionKey(sessionData.sessionId)].exp))
    ELSE store

\* updateSession, lines 131-149, once getSession has returned sessionData:
\* updates are merged, lastActivity is updates.lastActivity || Date.now()
updateSessionWrite(store, up, config, sessionData, messageCount, t) ==
    IF config.extendOnActivity
    THEN RedisService_setWithExpiry(store, up,
             SessionService_getSessionKey(sessionData.sessionId),
             SessionText([sessionData EXCEPT !.messageCount = messageCount,
                                             !.lastActivity = t]),
             config.ttl, t)
    ELSE RedisService_set(store, up,
             SessionService_getSessionKey(sessionData.sessionId),
             SessionText([sessionData EXCEPT !.messageCount = messageCount,
                                             !.lastActivity = t]),
             0, t)

\* incrementMessageCount, lines 208-226 (getSession, then updateSession with
\* messageCount + 1 and lastActivity = Date.now())
incrementMessageCount(store, up, config, sessionId, t) ==
    LET Result(got) ==
            IF ~got.found
            THEN [store |-> store, threw |-> TRUE, spins |-> got.spins]
            ELSE [store |-> updateSessionWrite(store, up, config, got.session,
                                               got.session.messageCount + 1, t),
                  threw |-> FALSE, spins |-> got.spins]
    IN  Result(getSession(store, up, config, sessionId, t))

\* validateSession without the address comparison
validateSessionAnyAddress(store, up, config, sessionId, ip, t) ==
    LET Result(got) ==
            [ret |-> got.found /\ got.session.isActive, spins |-> got.spins]
    IN  Result(getSession(store, up, config, sessionId, t))

\* validateSession, lines 185-203 (ip = "none": no address supplied)
validateSession(store, up, config, sessionId, ip, t) ==
    LET Result(got) ==
            [ret |-> /\ got.found
                     /\ got.session.isActive
                     /\ (ip = "none" \/ got.session.ipAddress = ip),
             spins |-> got.spins]
    IN  Result(getSession(store, up, config, sessionId, t))


-----------------------------------------------------------------------------
(* SpecSessionSeq: createSession and deleteSession called one at a time *)

SS_MaxTicks == 3
SS_Ids == {"s1", "s2", "s3"}
SS_Addresses == {"a1", "a2"}

\* SessionConfig with a time-to-live of one second (two ticks)
SS_Configs ==
    [ttl : {1}, maxSessionsPerIP : {1, 2}, extendOnActivity : {TRUE}]

\* the ids of the unexpired sessions stored for an address
UnexpiredSessionsOf(store, config, ip, t) ==
    {id \in SS_Ids :
        LET found == SessionLookup(store, TRUE, config, id, t)
        IN  found.kind = "valid" /\ found.session.ipAddress = ip}

SessionRecords(store) ==
    {<<id, store[SessionService_getSessionKey(id)].val>> :
        id \in {i \in SS_Ids : SessionService_getSessionKey(i) \in DOMAIN store}}

SS_NoObs ==
    [op |-> "none", ip |-> "none", ok |-> FALSE, owned |-> 0, stored |-> FALSE,
     freed |-> {}, expired |-> FALSE]

SS_Init ==
    /\ now = 0
    /\ redis = <<>>
    /\ redisUp = TRUE
    /\ cfg \in SS_Configs
    /\ tasks = <<>>
    /\ obs = SS_NoObs
    /\ connectedClients = <<>>
    /\ sockets = <<>>
    /\ channel = <<>>

\* obs.owned is the number of sessions the address owned when the call was
\* made; obs.freed holds the addresses for which a session was deleted while
\* they owned the maximum and that have not called createSession since
SS_Create(sessionId, ip) ==
    LET r == createSession(redis, redisUp, cfg, sessionId, ip, now)
    IN  /\ ~r.spins
        /\ redis' = r.store
        /\ obs' = [obs EXCEPT !.op = "create", !.ip = ip, !.ok = ~r.threw,
                              !.owned = Cardinality(UnexpiredSessionsOf(redis, cfg, ip, now)),
                              !.stored = SessionRecords(r.store) # SessionRecords(redis),
                              !.freed = IF ip \in obs.freed THEN {"next"} \cup (@ \ {ip})
                                        ELSE @ \ {"next"}]
        /\ UNCHANGED <<now, redisUp, cfg, tasks, connectedClients, sockets, channel>>

SS_Delete(sessionId) ==
    LET r == deleteSession(redis, redisUp, cfg, sessionId, now)
        owner == SessionLookup(redis, redisUp, cfg, sessionId, now).session.ipAddress
        full == Cardinality(UnexpiredSessionsOf(redis, cfg, owner, now))
                    = cfg.maxSessionsPerIP
    IN  /\ ~r.spins
        /\ redis' = r.store
        /\ obs' = [obs EXCEPT !.op = "delete", !.ip = owner, !.ok = r.ret,
                              !.owned = Cardinality(UnexpiredSessionsOf(redis, cfg, owner, now)),
                              !.stored = FALSE,
                              !.freed = IF r.ret /\ full THEN (@ \ {"next"}) \cup {owner}
                                        ELSE @ \ {"next"}]
        /\ UNCHANGED <<now, redisUp, cfg, tasks, connectedClients, sockets, channel>>

SS_Tick ==
    /\ now < SS_MaxTicks * TickMs
    /\ Tick
    /\ obs' = [obs EXCEPT !.op = "tick", !.freed = @ \ {"next"},
                          !.expired = @ \/ SessionRecords(redis') # SessionRecords(redis)]
    /\ UNCHANGED <<redisUp, cfg, tasks, connectedClients, sockets, channel>>

SS_Next ==
    \/ \E sessionId \in SS_Ids, ip \in SS_Addresses : SS_Create(sessionId, ip)
    \/ \E sessionId \in SS_Ids : SS_Delete(sessionId)
    \/ SS_Tick

SpecSessionSeq == SS_Init /\ [][SS_Next]_vars

\* C8: with createSession and deleteSession called one at a time and no
\* session expired, a createSession for an address that owns maxSessionsPerIP
\* sessions fails and leaves the stored sessions as they were, and the first
\* createSession for an address after one of its sessions was deleted while it
\* owned the maximum succeeds.
C8_CapSequential ==
    (obs.op = "create" /\ ~obs.expired) =>
        /\ obs.owned = cfg.maxSessionsPerIP => (~obs.ok /\ ~obs.stored)
        /\ "next" \in obs.freed => obs.ok

\* a createSession succeeded right after a deleteSession freed a slot of an
\* address that owned the maximum
C8_Witness ==
    /\ obs.op = "create" /\ ~obs.expired /\ "next" \in obs.freed /\ obs.ok
    /\ Cardinality(UnexpiredSessionsOf(redis, cfg, obs.ip, now)) = cfg.maxSessionsPerIP


-----------------------------------------------------------------------------
(* SpecSession: SessionService calls of concurrent callers, one step per   *)
(* awaited Redis operation                                                  *)

SC_MaxTicks == 3
SC_MaxCalls == 3
SC_Procs == {"g1", "g2"}
SC_Ids == {"s1", "s2"}
SC_Addresses == {"a1"}
SC_Configs ==
    [ttl : {1}, maxSessionsPerIP : {1}, extendOnActivity : {TRUE, FALSE}]

SC_Idle ==
    [pc |-> "idle", id |-> "none", ip |-> "none", t0 |-> 0, data |-> NoSession,
     spinId |-> "none"]

SC_Init ==
    /\ now = 0
    /\ redis = <<>>
    /\ redisUp = TRUE
    /\ cfg \in SC_Configs
    /\ tasks = [p \in SC_Procs |-> SC_Idle]
    /\ obs = [calls |-> 0]
    /\ connectedClients = <<>>
    /\ sockets = <<>>
    /\ channel = <<>>

\* a caller enters createSession (sampling Date.now(), line 55), updateSession
\* or deleteSession; obs.calls counts the calls made
SC_Call(p, op, sessionId, ip) ==
    /\ tasks[p].pc = "idle"
    /\ obs.calls < SC_MaxCalls
    /\ obs' = [calls |-> obs.calls + 1]
    /\ tasks' = [tasks EXCEPT ![p] =
                    [SC_Idle EXCEPT !.pc = op, !.id = sessionId,
                                    !.ip = IF op = "create.count" THEN ip ELSE "none",
                                    !.t0 = IF op = "create.count" THEN now ELSE 0]]
    /\ UNCHANGED <<now, redis, redisUp, cfg, connectedClients, sockets, channel>>

\* the ids whose getSession the caller's next step awaits
SC_Targets(store, task) ==
    IF task.pc = "create.count"
    THEN RedisService_smembers(store, redisUp, SessionService_getIPKey(task.ip), now)
    ELSE IF task.pc \in {"update.get", "delete.get"} THEN {task.id}
    ELSE {}

\* the getSession/deleteSession recursion on task.spinId returns when a read
\* finds the record gone, or finds it replaced by an unexpired record, which
\* the innermost deleteSession then deletes
SC_Unwind(store, task) ==
    IF task.spinId # "none"
       /\ SessionLookup(store, redisUp, cfg, task.spinId, now).kind = "valid"
    THEN deleteSession(store, redisUp, cfg, task.spinId, now).store
    ELSE store

\* getSession finds a stored record that is past its time-to-live and enters
\* the recursion with deleteSession
SC_Recurse(p) ==
    /\ \E sessionId \in SC_Targets(SC_Unwind(redis, tasks[p]), tasks[p]) :
          /\ sessionId # tasks[p].spinId
          /\ SessionLookup(SC_Unwind(redis, tasks[p]), redisUp, cfg, sessionId, now).kind
                = "expired"
          /\ (tasks[p].spinId # "none" =>
                SessionLookup(redis, redisUp, cfg, tasks[p].spinId, now).kind # "expired")
          /\ tasks' = [tasks EXCEPT ![p].spinId = sessionId]
    /\ redis' = SC_Unwind(redis, tasks[p])
    /\ UNCHANGED <<now, redisUp, cfg, obs, connectedClients, sockets, channel>>

\* createSession, lines 58-61
SC_CreateCount(p) ==
    LET cnt == getSessionCountByIP(SC_Unwind(redis, tasks[p]), redisUp, cfg,
                                   tasks[p].ip, now)
    IN  /\ tasks[p].pc = "create.count"
        /\ ~cnt.spins
        /\ redis' = cnt.store
        /\ tasks' = [tasks EXCEPT ![p] =
                        IF cnt.count >= cfg.maxSessionsPerIP THEN SC_Idle
                        ELSE [@ EXCEPT !.pc = "create.setex", !.spinId = "none"]]
        /\ UNCHANGED <<now, redisUp, cfg, obs, connectedClients, sockets, channel>>

\* createSession, lines 73-78
SC_CreateSetex(p) ==
    /\ tasks[p].pc = "create.setex"
    /\ redis' = RedisService_setWithExpiry(redis, redisUp,
                    SessionService_getSessionKey(tasks[p].id),
                    SessionText(NewSession(tasks[p].id, tasks[p].ip, tasks[p].t0)),
                    cfg.ttl, now)
    /\ tasks' = [tasks EXCEPT ![p].pc = "create.sadd"]
    /\ UNCHANGED <<now, redisUp, cfg, obs, connectedClients, sockets, channel>>

\* createSession, line 82
SC_CreateSadd(p) ==
    /\ tasks[p].pc = "create.sadd"
    /\ redis' = RedisService_sadd(redis, redisUp, SessionService_getIPKey(tasks[p].ip),
                                  tasks[p].id, now)
    /\ tasks' = [tasks EXCEPT ![p].pc = "create.expire"]
    /\ UNCHANGED <<now, redisUp, cfg, obs, connectedClients, sockets, channel>>

\* createSession, line 83
SC_CreateExpire(p) ==
    /\ tasks[p].pc = "create.expire"
    /\ redis' = RedisService_expire(redis, redisUp, SessionService_getIPKey(tasks[p].ip),
                                    cfg.ttl, now).store
    /\ tasks' = [tasks EXCEPT ![p] = SC_Idle]
    /\ UNCHANGED <<now, redisUp, cfg, obs, connectedClients, sockets, channel>>

\* updateSession, lines 126-129
SC_UpdateGet(p) ==
    LET got == getSession(SC_Unwind(redis, tasks[p]), redisUp, cfg, tasks[p].id, now)
    IN  /\ tasks[p].pc = "update.get"
        /\ ~got.spins
        /\ redis' = got.store
        /\ tasks' = [tasks EXCEPT ![p] =
                        IF got.found
                        THEN [@ EXCEPT !.pc = "update.write", !.data = got.session,
                                       !.spinId = "none"]
                        ELSE SC_Idle]
        /\ UNCHANGED <<now, redisUp, cfg, obs, connectedClients, sockets, channel>>

\* updateSession, lines 131-149
SC_UpdateWrite(p) ==
    /\ tasks[p].pc = "update.write"
    /\ redis' = updateSessionWrite(redis, redisUp, cfg, tasks[p].data,
                                   tasks[p].data.messageCount, now)
    /\ tasks' = [tasks EXCEPT ![p] = SC_Idle]
    /\ UNCHANGED <<now, redisUp, cfg, obs, connectedClients, sockets, channel>>

\* deleteSession, line 164
SC_DeleteGet(p) ==
    LET got == getSession(SC_Unwind(redis, tasks[p]), redisUp, cfg, tasks[p].id, now)
    IN  /\ tasks[p].pc = "delete.get"
        /\ ~got.spins
        /\ redis' = got.store
        /\ tasks' = [tasks EXCEPT ![p] =
                        [@ EXCEPT !.pc = IF got.found THEN "delete.srem" ELSE "delete.del",
                                  !.data = got.session, !.spinId = "none"]]
        /\ UNCHANGED <<now, redisUp, cfg, obs, connectedClients, sockets, channel>>

\* deleteSession, lines 167-170
SC_DeleteSrem(p) ==
    /\ tasks[p].pc = "delete.srem"
    /\ redis' = RedisService_srem(redis, redisUp,
                    SessionService_getIPKey(tasks[p].data.ipAddress), tasks[p].id, now)
    /\ tasks' = [tasks EXCEPT ![p].pc = "delete.del"]
    /\ UNCHANGED <<now, redisUp, cfg, obs, connectedClients, sockets, channel>>

\* deleteSession, lines 172-173
SC_DeleteDel(p) ==
    /\ tasks[p].pc = "delete.del"
    /\ redis' = RedisService_del(redis, redisUp,
                    {SessionService_getSessionKey(tasks[p].id)}, now).store
    /\ tasks' = [tasks EXCEPT ![p] = SC_Idle]
    /\ UNCHANGED <<now, redisUp, cfg, obs, connectedClients, sockets, channel>>

SC_Tick ==
    /\ now < SC_MaxTicks * TickMs
    /\ Tick
    /\ UNCHANGED <<redisUp, cfg, tasks, obs, connectedClients, sockets, channel>>

SC_Next ==
    \/ \E p \in SC_Procs, op \in {"create.count", "update.get", "delete.get"},
          sessionId \in SC_Ids, ip \in SC_Addresses : SC_Call(p, op, sessionId, ip)
    \/ \E p \in SC_Procs : SC_Recurse(p)
    \/ \E p \in SC_Procs : SC_CreateCount(p)
    \/ \E p \in SC_Procs : SC_CreateSetex(p)
    \/ \E p \in SC_Procs : SC_CreateSadd(p)
    \/ \E p \in SC_Procs : SC_CreateExpire(p)
    \/ \E p \in SC_Procs : SC_UpdateGet(p)
    \/ \E p \in SC_Procs : SC_UpdateWrite(p)
    \/ \E p \in SC_Procs : SC_DeleteGet(p)
    \/ \E p \in SC_Procs : SC_DeleteSrem(p)
    \/ \E p \in SC_Procs : SC_DeleteDel(p)
    \/ SC_Tick

SpecSession == SC_Init /\ [][SC_Next]_vars

\* C7: in every reachable state the number of unexpired sessions stored for
\* one client address is at most maxSessionsPerIP.
C7_SessionsWithinMax ==
    \A ip \in SS_Addresses :
        Cardinality(UnexpiredSessionsOf(redis, cfg, ip, now)) <= cfg.maxSessionsPerIP


-----------------------------------------------------------------------------
(* ChatGateway: connections, the clientId -> sessionId registry of each     *)
(* gateway process, handleChatMessage and the chat_tokens subscriber        *)

GW_MaxInputs == 3

GW_Procs == {"g1", "g2"}
GW_Conns == {"c1", "c2", "c3"}
GW_Sessions == {"s1", "s2"}
GW_Addresses == {"a1"}

\* the gateway process a connection is attached to
GW_ProcOf(c) == IF c = "c3" THEN "g2" ELSE "g1"

\* ChatRequest bodies: well-formed ones and ones that fail validation
GW_Requests ==
    [sessionId : GW_Sessions, message : {"hi"}]
        \cup {[sessionId |-> "s1", message |-> ""], [sessionId |-> "", message |-> "hi"]}

GW_Configs ==
    [ttl : {1}, maxSessionsPerIP : {1}, extendOnActivity : {TRUE},
     connectionsPerIP : {[windowMs |-> 500, maxRequests |-> 2]},
     messagesPerSession : {[windowMs |-> 1000, maxRequests |-> 2]}]

\* ChatMessage and ErrorMessage as emitted on the 'chat' and 'error' events
ChatMessage(sessionId, token, done) ==
    [event |-> "chat", sessionId |-> sessionId, token |-> token, done |-> done,
     code |-> "none"]

ErrorMessage(code) ==
    [event |-> "error", sessionId |-> "none", token |-> "", done |-> FALSE,
     code |-> code]

Emit(clientId, msg) == [to |-> clientId, msg |-> msg]

\* AgentService.sendMessage once the gRPC callback fires: it rejects on an
\* error and resolves with response.response || '' otherwise
sendMessage(outcome) ==
    [threw |-> outcome = "error",
     response |-> IF outcome = "ok" THEN "answer" ELSE ""]

\* broadcastChatMessage: connectedClients.forEach over the entries of the Map
RECURSIVE forEachClient(_, _, _)
forEachClient(registry, clientIds, chatMessage) ==
    IF clientIds = {} THEN <<>>
    ELSE LET clientId == CHOOSE c \in clientIds : TRUE
         IN  (IF registry[clientId] = chatMessage.sessionId
              THEN <<Emit(clientId, chatMessage)>> ELSE <<>>)
                 \o forEachClient(registry, clientIds \ {clientId}, chatMessage)

\* broadcastChatMessage emitting to every entry of the registry
broadcastToEveryClient(registry, chatMessage) ==
    forEachClient([c \in DOMAIN registry |-> chatMessage.sessionId], DOMAIN registry,
                  chatMessage)

broadcastChatMessage(registry, chatMessage) ==
    forEachClient(registry, DOMAIN registry, chatMessage)

\* handleChatMessage recording the message before the quota check decides
AdmitChatMessageRecordFirst(store, up, config, data, clientIP, t) ==
    LET key == getWebSocketMessageKey(data.sessionId)
        Limited(s1, spins, limit) ==
            IF ~limit.allowed
            THEN [store |-> recordRequest(s1, up, key, config.messagesPerSession, t),
                  code |-> "MESSAGE_RATE_LIMIT", spins |-> spins]
            ELSE [store |-> incrementMessageCount(
                                recordRequest(s1, up, key, config.messagesPerSession, t),
                                up, config, data.sessionId, t).store,
                  code |-> "none", spins |-> spins]
        Admitted(s1, spins) ==
            Limited(s1, spins,
                    checkRateLimit(s1, up, key, config.messagesPerSession, t, t))
        Created(created) ==
            IF created.threw
            THEN [store |-> created.store, code |-> "SESSION_ERROR",
                  spins |-> created.spins]
            ELSE Admitted(created.store, created.spins)
        Got(got) ==
            IF got.spins THEN [store |-> store, code |-> "none", spins |-> TRUE]
            ELSE IF ~got.found
            THEN Created(createSession(store, up, config, data.sessionId, clientIP, t))
            ELSE IF ~validateSession(store, up, config, data.sessionId, clientIP, t).ret
            THEN [store |-> store, code |-> "SESSION_INVALID", spins |-> FALSE]
            ELSE Admitted(store, FALSE)
    IN  Got(getSession(store, up, config, data.sessionId, t))

\* handleChatMessage, lines 211-247: the session is fetched or created and
\* validated, the message quota is checked and recorded, the session's message
\* count is incremented (a failure of that is logged and ignored).  code is
\* the error sent to the client, "none" when the message is admitted.
AdmitChatMessage(store, up, config, data, clientIP, t) ==
    LET key == getWebSocketMessageKey(data.sessionId)
        Limited(s1, spins, limit) ==
            IF ~limit.allowed
            THEN [store |-> s1, code |-> "MESSAGE_RATE_LIMIT", spins |-> spins]
            ELSE [store |-> incrementMessageCount(
                                recordRequest(s1, up, key, config.messagesPerSession, t),
                                up, config, data.sessionId, t).store,
                  code |-> "none", spins |-> spins]
        Admitted(s1, spins) ==
            Limited(s1, spins,
                    checkRateLimit(s1, up, key, config.messagesPerSession, t, t))
        Created(created) ==
            IF created.threw
            THEN [store |-> created.store, code |-> "SESSION_ERROR",
                  spins |-> created.spins]
            ELSE Admitted(created.store, created.spins)
        Got(got) ==
            IF got.spins THEN [store |-> store, code |-> "none", spins |-> TRUE]
            ELSE IF ~got.found
            THEN Created(createSession(store, up, config, data.sessionId, clientIP, t))
            ELSE IF ~validateSession(store, up, config, data.sessionId, clientIP, t).ret
            THEN [store |-> store, code |-> "SESSION_INVALID", spins |-> FALSE]
            ELSE Admitted(store, FALSE)
    IN  Got(getSession(store, up, config, data.sessionId, t))


GW_Idle == [pc |-> "idle", data |-> [sessionId |-> "", message |-> ""]]

GW_NoObs ==
    [kind |-> "none", conn |-> "none", proc |-> "none", sessionId |-> "none",
     outcome |-> "none", emits |-> <<>>, inputs |-> 0]

GW_Init ==
    /\ now = 0
    /\ redis = <<>>
    /\ redisUp \in BOOLEAN
    /\ cfg \in GW_Configs
    /\ tasks = [c \in GW_Conns |-> GW_Idle]
    /\ obs = GW_NoObs
    /\ connectedClients = [g \in GW_Procs |-> <<>>]
    /\ sockets = [c \in GW_Conns |-> [state |-> "new", ip |-> "none"]]
    /\ channel = [g \in GW_Procs |-> <<>>]

\* handleConnection without client.disconnect(true) on a rejection
GW_ConnectKeepsRejected(c, clientIP) ==
    LET limit == checkRateLimit(redis, redisUp, getWebSocketConnectionKey(clientIP),
                                cfg.connectionsPerIP, now, now)
    IN  /\ sockets[c].state = "new"
        /\ IF limit.allowed
           THEN /\ redis' = recordRequest(redis, redisUp,
                                getWebSocketConnectionKey(clientIP),
                                cfg.connectionsPerIP, now)
                /\ obs' = [GW_NoObs EXCEPT !.kind = "connect", !.conn = c,
                              !.inputs = obs.inputs,
                              !.emits = <<Emit(c, ChatMessage("system", "welcome", TRUE))>>]
           ELSE /\ redis' = redis
                /\ obs' = [GW_NoObs EXCEPT !.kind = "connect", !.conn = c,
                              !.inputs = obs.inputs,
                              !.emits = <<Emit(c, ErrorMessage("CONNECTION_RATE_LIMIT"))>>]
        /\ sockets' = [sockets EXCEPT ![c] = [state |-> "open", ip |-> clientIP]]
        /\ UNCHANGED <<now, redisUp, cfg, tasks, connectedClients, channel>>

\* handleConnection, lines 134-184; obs.emits holds what the step emitted and
\* obs.inputs counts the chat messages, publications and clock ticks so far
GW_Connect(c, clientIP) ==
    LET limit == checkRateLimit(redis, redisUp, getWebSocketConnectionKey(clientIP),
                                cfg.connectionsPerIP, now, now)
    IN  /\ sockets[c].state = "new"
        /\ IF limit.allowed
           THEN /\ redis' = recordRequest(redis, redisUp,
                                getWebSocketConnectionKey(clientIP),
                                cfg.connectionsPerIP, now)
                /\ sockets' = [sockets EXCEPT ![c] = [state |-> "open", ip |-> clientIP]]
                /\ obs' = [GW_NoObs EXCEPT !.kind = "connect", !.conn = c,
                              !.inputs = obs.inputs,
                              !.emits = <<Emit(c, ChatMessage("system", "welcome", TRUE))>>]
           ELSE /\ redis' = redis
                /\ sockets' = [sockets EXCEPT ![c] = [state |-> "closed", ip |-> clientIP]]
                /\ obs' = [GW_NoObs EXCEPT !.kind = "connect", !.conn = c,
                              !.inputs = obs.inputs,
                              !.emits = <<Emit(c, ErrorMessage("CONNECTION_RATE_LIMIT"))>>]
        /\ UNCHANGED <<now, redisUp, cfg, tasks, connectedClients, channel>>

\* handleDisconnect clearing the whole registry of its process
GW_DisconnectClearsAll(c) ==
    /\ sockets[c].state = "open"
    /\ sockets' = [sockets EXCEPT ![c].state = "closed"]
    /\ connectedClients' = [connectedClients EXCEPT ![GW_ProcOf(c)] = <<>>]
    /\ obs' = [GW_NoObs EXCEPT !.kind = "disconnect", !.conn = c, !.inputs = obs.inputs]
    /\ UNCHANGED <<now, redis, redisUp, cfg, tasks, channel>>

\* the socket closes; handleDisconnect, lines 186-190
GW_Disconnect(c) ==
    /\ sockets[c].state = "open"
    /\ sockets' = [sockets EXCEPT ![c].state = "closed"]
    /\ connectedClients' =
          [connectedClients EXCEPT ![GW_ProcOf(c)] =
              [k \in DOMAIN @ \ {c} |-> @[k]]]
    /\ obs' = [GW_NoObs EXCEPT !.kind = "disconnect", !.conn = c, !.inputs = obs.inputs]
    /\ UNCHANGED <<now, redis, redisUp, cfg, tasks, channel>>

\* handleChatMessage without the validation of the request data
GW_ChatMessageUnvalidated(c, data) ==
    /\ sockets[c].state = "open"
    /\ tasks[c].pc = "idle"
    /\ obs.inputs < GW_MaxInputs
    /\ \E r \in {AdmitChatMessage(redis, redisUp, cfg, data, sockets[c].ip, now)} :
          /\ ~r.spins
          /\ redis' = r.store
          /\ tasks' = IF r.code = "none"
                      THEN [tasks EXCEPT ![c] = [pc |-> "register", data |-> data]]
                      ELSE tasks
          /\ obs' = [GW_NoObs EXCEPT !.kind = "chat", !.conn = c,
                        !.sessionId = data.sessionId, !.outcome = r.code,
                        !.inputs = obs.inputs + 1,
                        !.emits = IF r.code = "none" THEN <<>>
                                  ELSE <<Emit(c, ErrorMessage(r.code))>>]
    /\ UNCHANGED <<now, redisUp, cfg, connectedClients, sockets, channel>>

\* handleChatMessage, lines 197-247
GW_ChatMessage(c, data) ==
    /\ sockets[c].state = "open"
    /\ tasks[c].pc = "idle"
    /\ obs.inputs < GW_MaxInputs
    /\ \E r \in {IF data.message = "" \/ data.sessionId = ""
                 THEN [store |-> redis, code |-> "INVALID_REQUEST", spins |-> FALSE]
                 ELSE AdmitChatMessage(redis, redisUp, cfg, data, sockets[c].ip, now)} :
          /\ ~r.spins
          /\ redis' = r.store
          /\ tasks' = IF r.code = "none"
                      THEN [tasks EXCEPT ![c] = [pc |-> "register", data |-> data]]
                      ELSE tasks
          /\ obs' = [GW_NoObs EXCEPT !.kind = "chat", !.conn = c,
                        !.sessionId = data.sessionId, !.outcome = r.code,
                        !.inputs = obs.inputs + 1,
                        !.emits = IF r.code = "none" THEN <<>>
                                  ELSE <<Emit(c, ErrorMessage(r.code))>>]
    /\ UNCHANGED <<now, redisUp, cfg, connectedClients, sockets, channel>>

\* handleChatMessage, lines 250-257: the registry entry and the typing
\* indicator
GW_Register(c) ==
    /\ tasks[c].pc = "register"
    /\ connectedClients' =
          [connectedClients EXCEPT ![GW_ProcOf(c)] =
              [k \in DOMAIN @ \cup {c} |->
                  IF k = c THEN tasks[c].data.sessionId ELSE @[k]]]
    /\ tasks' = [tasks EXCEPT ![c].pc = "agent"]
    /\ obs' = [GW_NoObs EXCEPT !.kind = "register", !.conn = c,
                  !.sessionId = tasks[c].data.sessionId, !.inputs = obs.inputs,
                  !.emits = <<Emit(c, ChatMessage(tasks[c].data.sessionId, "", FALSE))>>]
    /\ UNCHANGED <<now, redis, redisUp, cfg, sockets, channel>>

\* handleChatMessage, lines 260-278: sendMessage returns
GW_AgentReturn(c, outcome) ==
    LET response == sendMessage(outcome)
        sessionId == tasks[c].data.sessionId
    IN  /\ tasks[c].pc = "agent"
        /\ tasks' = [tasks EXCEPT ![c] = GW_Idle]
        /\ obs' = [GW_NoObs EXCEPT !.kind = "return", !.conn = c,
                      !.proc = GW_ProcOf(c), !.sessionId = sessionId,
                      !.outcome = outcome, !.inputs = obs.inputs,
                      !.emits =
                          IF response.threw
                          THEN <<Emit(c, ErrorMessage("AGENT_ERROR"))>>
                          ELSE IF response.response # ""
                          THEN <<Emit(c, ChatMessage(sessionId, response.response, TRUE))>>
                          ELSE <<>>]
        /\ UNCHANGED <<now, redis, redisUp, cfg, connectedClients, sockets, channel>>

\* a ChatMessage is published on chat_tokens (RedisService.publishChatToken or
\* the agent); Redis hands it to every subscribed gateway process
GW_Publish(sessionId) ==
    /\ obs.inputs < GW_MaxInputs
    /\ channel' = [g \in GW_Procs |->
                      Append(channel[g], ChatMessage(sessionId, "token", TRUE))]
    /\ obs' = [GW_NoObs EXCEPT !.kind = "publish", !.sessionId = sessionId,
                  !.inputs = obs.inputs + 1]
    /\ UNCHANGED <<now, redis, redisUp, cfg, tasks, connectedClients, sockets>>

\* the chat_tokens subscriber of process g, lines 283-291 and 300-315
GW_Deliver(g) ==
    /\ channel[g] # <<>>
    /\ channel' = [channel EXCEPT ![g] = Tail(@)]
    /\ obs' = [GW_NoObs EXCEPT !.kind = "deliver", !.proc = g,
                  !.sessionId = Head(channel[g]).sessionId,
                  !.inputs = obs.inputs,
                  !.emits = broadcastChatMessage(connectedClients[g],
                                                 Head(channel[g]))]
    /\ UNCHANGED <<now, redis, redisUp, cfg, tasks, connectedClients, sockets>>

GW_Tick ==
    /\ obs.inputs < GW_MaxInputs
    /\ Tick
    /\ obs' = [GW_NoObs EXCEPT !.kind = "tick", !.inputs = obs.inputs + 1]
    /\ UNCHANGED <<redisUp, cfg, tasks, connectedClients, sockets, channel>>

GW_Next ==
    \/ \E c \in GW_Conns, clientIP \in GW_Addresses : GW_Connect(c, clientIP)
    \/ \E c \in GW_Conns : GW_Disconnect(c)
    \/ \E c \in GW_Conns, data \in GW_Requests : GW_ChatMessage(c, data)
    \/ \E c \in GW_Conns : GW_Register(c)
    \/ \E c \in GW_Conns, outcome \in {"ok", "empty", "error"} : GW_AgentReturn(c, outcome)
    \/ \E sessionId \in GW_Sessions : GW_Publish(sessionId)
    \/ \E g \in GW_Procs : GW_Deliver(g)
    \/ GW_Tick

SpecGateway == GW_Init /\ [][GW_Next]_vars

\* the connections that are open and whose registry entry, in the registry
\* of their gateway process, maps to sessionId
GW_RegisteredTo(sessionId) ==
    {c \in GW_Conns :
        /\ sockets[c].state = "open"
        /\ c \in DOMAIN connectedClients[GW_ProcOf(c)]
        /\ connectedClients[GW_ProcOf(c)][c] = sessionId}

\* the positions in obs.emits of the messages the last step emitted to c
GW_EmitsTo(c) == {i \in DOMAIN obs.emits : obs.emits[i].to = c}

\* C4: when the inference call of an admitted chat message has succeeded,
\* every connection registered to the originating session, on any gateway
\* process, has been sent the final message or has an envelope of the session
\* in flight to its process.
C4_ResultReachesSession ==
    (obs.kind = "return" /\ obs.outcome = "ok") =>
        \A c \in GW_RegisteredTo(obs.sessionId) :
            \/ \E i \in GW_EmitsTo(c) : obs.emits[i].msg.done
            \/ \E i \in DOMAIN channel[GW_ProcOf(c)] :
                  channel[GW_ProcOf(c)][i].sessionId = obs.sessionId

\* C5: when the inference call of an admitted chat message returns, with a
\* non-empty response, an empty response or an error, the sending client is
\* sent a final chat message (done = true) or a well-formed error object.
C5_SenderGetsAnswerOrError ==
    obs.kind = "return" =>
        \E i \in GW_EmitsTo(obs.conn) :
            \/ obs.emits[i].msg.event = "chat" /\ obs.emits[i].msg.done
            \/ obs.emits[i].msg.event = "error" /\ obs.emits[i].msg.code # "none"

\* C6: an envelope for session S received by a gateway process is emitted
\* exactly once to each of its connections whose registry entry maps to S and
\* to no other connection.
C6_DeliveredOncePerMatch ==
    obs.kind = "deliver" =>
        \A c \in GW_Conns :
            Cardinality({i \in GW_EmitsTo(c) : sockets[c].state = "open"})
                = IF c \in GW_RegisteredTo(obs.sessionId) /\ GW_ProcOf(c) = obs.proc
                  THEN 1 ELSE 0

\* an envelope was emitted to the two connections of one process that are
\* registered to its session
C6_Witness ==
    /\ obs.kind = "deliver"
    /\ Len(obs.emits) = 2
    /\ Cardinality({c \in GW_RegisteredTo(obs.sessionId) : GW_ProcOf(c) = obs.proc}) = 2


\* C11: in every reachable state every entry of a connection registry belongs
\* to a connection that is open.
C11_RegistryOnlyOpen ==
    \A g \in GW_Procs : \A c \in DOMAIN connectedClients[g] : sockets[c].state = "open"


-----------------------------------------------------------------------------
(* SpecSessionFair: the calls of one caller, where the clock advances and  *)
(* a call in progress takes its next step when it can (the event loop     *)
(* resumes each continuation whose awaited Redis reply has arrived)       *)

SC_Step(p) ==
    \/ SC_Recurse(p)
    \/ SC_CreateCount(p) \/ SC_CreateSetex(p) \/ SC_CreateSadd(p) \/ SC_CreateExpire(p)
    \/ SC_UpdateGet(p) \/ SC_UpdateWrite(p)
    \/ SC_DeleteGet(p) \/ SC_DeleteSrem(p) \/ SC_DeleteDel(p)

\* one caller: the other one makes no call
SCF_Init ==
    /\ now = 0
    /\ redis = <<>>
    /\ redisUp = TRUE
    /\ cfg \in SC_Configs
    /\ tasks = [p \in SC_Procs |->
                  IF p = "g1" THEN SC_Idle ELSE [SC_Idle EXCEPT !.pc = "off"]]
    /\ obs = [calls |-> 0]
    /\ connectedClients = <<>>
    /\ sockets = <<>>
    /\ channel = <<>>

SpecSessionFair ==
    /\ SCF_Init
    /\ [][SC_Next]_vars
    /\ WF_vars(SC_Tick)
    /\ \A p \in SC_Procs : WF_vars(SC_Step(p))

\* the caller awaits getSession(task.id) and the record of that id is stored
\* without expiry
SC_AwaitsStored(p) ==
    /\ tasks[p].pc \in {"update.get", "delete.get"}
    /\ SessionService_getSessionKey(tasks[p].id) \in DOMAIN redis
    /\ redis[SessionService_getSessionKey(tasks[p].id)].exp = NoExpiry

\* C12: a getSession call on a record that is stored (here: stored without
\* a Redis expiry, so that only the service can remove it) returns.
C12_GetSessionTerminates ==
    \A p \in SC_Procs :
        SC_AwaitsStored(p) ~> tasks[p].pc \notin {"update.get", "delete.get"}


-----------------------------------------------------------------------------
(* SpecAdapter: the RedisService operations called one after another, with *)
(* the client ready, with a client whose calls reject (store unreachable), *)
(* or with no client object at all                                         *)

RA_MaxOps == 3

\* the text of a key is its segments joined by ':' (keys without a window
\* suffix)
KeySegments(key) == <<key[1]>> \o key[2]

\* Redis glob matching where every '*' of the pattern stands between two ':'
\* (or at an end): it matches any text, that is one or more segments
RECURSIVE GlobMatch(_, _)
GlobMatch(pattern, segs) ==
    IF pattern = <<>> THEN segs = <<>>
    ELSE IF Head(pattern) = "*"
    THEN \E n \in 1..Len(segs) :
            GlobMatch(Tail(pattern), SubSeq(segs, n + 1, Len(segs)))
    ELSE /\ segs # <<>>
         /\ Head(segs) = Head(pattern)
         /\ GlobMatch(Tail(pattern), Tail(segs))

\* KEYS pattern / SCAN MATCH pattern: the present keys whose text matches
RedisKeys(store, pattern, t) ==
    {k \in DOMAIN store : Live(store, k, t) /\ GlobMatch(pattern, KeySegments(k))}

\* await this.client.<command>(...): rejects while the store is unreachable
ClientCall(client, result) ==
    IF client = "failing" THEN [threw |-> TRUE, ret |-> result]
    ELSE [threw |-> FALSE, ret |-> result]

\* unsubscribe: catch (error) { ...; throw error; }
GuardedRethrow(client, call, neutral) ==
    IF client = "missing" THEN [threw |-> FALSE, ret |-> neutral] ELSE call

\* try { if (!this.client) return neutral; return await call; }
\* catch (error) { log; return neutral; }
Guarded(client, call, neutral) ==
    IF client = "missing" THEN [threw |-> FALSE, ret |-> neutral]
    ELSE IF call.threw THEN [threw |-> FALSE, ret |-> neutral]
    ELSE call

RA_Clients == {"ready", "failing", "missing"}
RA_Keys == {<<"k", <<"1">>, NoWindow>>, <<"k", <<"2">>, NoWindow>>, <<"j", <<"1">>, NoWindow>>}
RA_Values == {<<"1">>, <<"7">>}
RA_Ttls == {0, 1}
RA_Patterns == {<<"*">>, <<"k", "*">>, <<"j", "1">>}
RA_Channels == {"logs", "chat_tokens"}

RA_NoObs == [op |-> "none", threw |-> FALSE, ret |-> 0, before |-> <<>>, ops |-> 0]

\* what was stored before the outage is still in the store
RA_Init ==
    /\ now = 0
    /\ redis \in {<<>>, RedisSet(<<>>, <<"k", <<"1">>, NoWindow>>, <<"7">>)}
    /\ cfg \in [client : RA_Clients]
    /\ redisUp = (cfg.client = "ready")
    /\ tasks = <<>>
    /\ obs = RA_NoObs
    /\ connectedClients = <<>>
    /\ sockets = <<>>
    /\ channel = [subscriptions |-> {}, subscribed |-> {}, delivered |-> <<>>]

RA_Done(op, r, store) ==
    /\ obs.ops < RA_MaxOps
    /\ redis' = store
    /\ obs' = [op |-> op, threw |-> r.threw, ret |-> r.ret, before |-> redis,
               ops |-> obs.ops + 1]
    /\ UNCHANGED <<now, redisUp, cfg, tasks, connectedClients, sockets>>

RA_Get(key) ==
    /\ \E r \in {Guarded(cfg.client, ClientCall(cfg.client, RedisGet(redis, key, now)), Nil)} :
          RA_Done("get", r, redis)
    /\ UNCHANGED channel

RA_Set(key, v, ttl) ==
    /\ \E r \in {Guarded(cfg.client, ClientCall(cfg.client, "void"), "void")} :
          RA_Done("set", r, RedisService_set(redis, redisUp, key, v, ttl, now))
    /\ UNCHANGED channel

RA_Incr(key) ==
    /\ \E w \in {RedisService_incr(redis, redisUp, key, now)} :
       \E r \in {Guarded(cfg.client, ClientCall(cfg.client, w.ret), 0)} :
          RA_Done("incr", r, w.store)
    /\ UNCHANGED channel

RA_Expire(key, ttl) ==
    /\ \E w \in {RedisService_expire(redis, redisUp, key, ttl, now)} :
       \E r \in {Guarded(cfg.client, ClientCall(cfg.client, w.ret = 1), FALSE)} :
          RA_Done("expire", r, w.store)
    /\ UNCHANGED channel

RA_Del(ks) ==
    /\ \E w \in {RedisService_del(redis, redisUp, ks, now)} :
       \E r \in {Guarded(cfg.client, ClientCall(cfg.client, w.ret), 0)} :
          RA_Done("del", r, w.store)
    /\ UNCHANGED channel

RA_KeysMatching(pattern) ==
    /\ \E r \in {Guarded(cfg.client, ClientCall(cfg.client, RedisKeys(redis, pattern, now)), {})} :
          RA_Done("keys", r, redis)
    /\ UNCHANGED channel

\* publish: the message reaches the message handler of each subscription
RA_Publish(ch, message) ==
    /\ \E r \in {Guarded(cfg.client, ClientCall(cfg.client, "void"), "void")} :
          RA_Done("publish", r, redis)
    /\ channel' = IF redisUp /\ ch \in channel.subscribed
                  THEN [channel EXCEPT !.delivered = Append(@, <<ch, message>>)]
                  ELSE channel

\* subscribe: the callback is put in the subscriptions map before the
\* SUBSCRIBE command is awaited
RA_Subscribe(ch) ==
    /\ \E r \in {Guarded(cfg.client, ClientCall(cfg.client, "void"), "void")} :
          RA_Done("subscribe", r, redis)
    /\ channel' = IF cfg.client = "missing" THEN channel
                  ELSE IF cfg.client = "failing"
                  THEN [channel EXCEPT !.subscriptions = @ \cup {ch}]
                  ELSE [channel EXCEPT !.subscriptions = @ \cup {ch},
                                       !.subscribed = @ \cup {ch}]

RA_Tick ==
    /\ obs.ops < RA_MaxOps
    /\ Tick
    /\ obs' = [RA_NoObs EXCEPT !.op = "tick", !.ops = obs.ops + 1]
    /\ UNCHANGED <<redisUp, cfg, tasks, connectedClients, sockets, channel>>

RA_Next ==
    \/ \E key \in RA_Keys : RA_Get(key)
    \/ \E key \in RA_Keys, v \in RA_Values, ttl \in RA_Ttls : RA_Set(key, v, ttl)
    \/ \E key \in RA_Keys : RA_Incr(key)
    \/ \E key \in RA_Keys, ttl \in RA_Ttls \ {0} : RA_Expire(key, ttl)
    \/ \E ks \in SUBSET RA_Keys \ {{}} : RA_Del(ks)
    \/ \E pattern \in RA_Patterns : RA_KeysMatching(pattern)
    \/ \E ch \in RA_Channels, message \in {"m"} : RA_Publish(ch, message)
    \/ \E ch \in RA_Channels : RA_Subscribe(ch)
    \/ RA_Tick

SpecAdapter == RA_Init /\ [][RA_Next]_vars

RA_Operations == {"get", "set", "incr", "expire", "del", "keys", "publish", "subscribe"}

\* C15: every RedisService operation (get, set, incr, expire, del, keys,
\* publish, subscribe) returns normally; while the store is unreachable or
\* the client is missing, a read returns its neutral default (null, 0, false,
\* no keys) and a write changes neither the store nor what subscribers are
\* delivered.
C15_AdapterFailsOpen ==
    obs.op \in RA_Operations =>
        /\ ~obs.threw
        /\ ~redisUp =>
              /\ redis = obs.before
              /\ channel.delivered = <<>>
              /\ channel.subscribed = {}
              /\ obs.op = "get" => obs.ret = Nil
              /\ obs.op \in {"incr", "del"} => obs.ret = 0
              /\ obs.op = "expire" => obs.ret = FALSE
              /\ obs.op = "keys" => obs.ret = {}

\* an increment of a key that was stored before the outage, while the calls
\* of the client reject
C15_Witness ==
    /\ cfg.client = "failing"
    /\ obs.op = "incr" /\ obs.ret = 0 /\ ~obs.threw
    /\ obs.before # <<>>
    /\ redis = obs.before


-----------------------------------------------------------------------------
(* SpecGatewayFair: one connection, where the clock advances and the       *)
(* gateway takes each of its own steps when it can.  Whether and when the  *)
(* inference service answers is up to that service.                        *)

GWF_Init ==
    /\ now = 0
    /\ redis = <<>>
    /\ redisUp = TRUE
    /\ cfg \in GW_Configs
    /\ tasks = [c \in GW_Conns |-> GW_Idle]
    /\ obs = GW_NoObs
    /\ connectedClients = [g \in GW_Procs |-> <<>>]
    /\ sockets = [c \in GW_Conns |->
                    [state |-> IF c = "c1" THEN "new" ELSE "closed", ip |-> "none"]]
    /\ channel = [g \in GW_Procs |-> <<>>]

SpecGatewayFair ==
    /\ GWF_Init
    /\ [][GW_Next]_vars
    /\ WF_vars(GW_Tick)
    /\ \A c \in GW_Conns : WF_vars(GW_Register(c))
    /\ \A g \in GW_Procs : WF_vars(GW_Deliver(g))

\* C16: the handling of an admitted chat message ends, also when the
\* inference service never answers (the call is then given up after a
\* deadline and the client is sent a failure message).
C16_HandlingTerminates ==
    \A c \in GW_Conns : (tasks[c].pc = "agent") ~> (tasks[c].pc = "idle")


-----------------------------------------------------------------------------
(* SpecValidate: sessions are created, touched, deactivated and validated, *)
(* one call at a time                                                      *)

SV_MaxTicks == 3
SV_MaxCalls == 3
SV_Ids == {"s1", "s2"}
SV_Addresses == {"a1", "a2"}

SV_Configs == [ttl : {1}, maxSessionsPerIP : {2}, extendOnActivity : BOOLEAN]

\* obs.calls counts the calls that write
SV_NoObs == [op |-> "none", id |-> "none", ip |-> "none", returned |-> FALSE,
             ret |-> FALSE, calls |-> 0]

SV_Init ==
    /\ now = 0
    /\ redis = <<>>
    /\ redisUp = TRUE
    /\ cfg \in SV_Configs
    /\ tasks = <<>>
    /\ obs = SV_NoObs
    /\ connectedClients = <<>>
    /\ sockets = <<>>
    /\ channel = <<>>

SV_Create(sessionId, ip) ==
    /\ \E r \in {createSession(redis, redisUp, cfg, sessionId, ip, now)} :
          /\ ~r.spins
          /\ obs.calls < SV_MaxCalls
          /\ redis' = r.store
          /\ obs' = [SV_NoObs EXCEPT !.op = "create", !.calls = obs.calls + 1,
                                     !.id = sessionId, !.ip = ip,
                                     !.returned = TRUE, !.ret = ~r.threw]
    /\ UNCHANGED <<now, redisUp, cfg, tasks, connectedClients, sockets, channel>>

\* incrementMessageCount(sessionId)
SV_Touch(sessionId) ==
    /\ \E r \in {incrementMessageCount(redis, redisUp, cfg, sessionId, now)} :
          /\ ~r.spins
          /\ obs.calls < SV_MaxCalls
          /\ redis' = r.store
          /\ obs' = [SV_NoObs EXCEPT !.op = "touch", !.calls = obs.calls + 1,
                                     !.id = sessionId,
                                     !.returned = TRUE, !.ret = ~r.threw]
    /\ UNCHANGED <<now, redisUp, cfg, tasks, connectedClients, sockets, channel>>

\* updateSession(sessionId, {isActive: false})
SV_Deactivate(sessionId) ==
    /\ \E got \in {getSession(redis, redisUp, cfg, sessionId, now)} :
          /\ ~got.spins
          /\ obs.calls < SV_MaxCalls
          /\ redis' = IF got.found
                      THEN updateSessionWrite(redis, redisUp, cfg,
                               [got.session EXCEPT !.isActive = FALSE],
                               got.session.messageCount, now)
                      ELSE redis
          /\ obs' = [SV_NoObs EXCEPT !.op = "deactivate", !.calls = obs.calls + 1,
                                     !.id = sessionId,
                                     !.returned = TRUE, !.ret = got.found]
    /\ UNCHANGED <<now, redisUp, cfg, tasks, connectedClients, sockets, channel>>

\* validateSession(sessionId, ip); obs.returned is false when the call does
\* not return
SV_Validate(sessionId, ip) ==
    /\ \E r \in {validateSession(redis, redisUp, cfg, sessionId, ip, now)} :
          obs' = [SV_NoObs EXCEPT !.op = "validate", !.calls = obs.calls,
                                  !.id = sessionId, !.ip = ip,
                                  !.returned = ~r.spins,
                                  !.ret = ~r.spins /\ r.ret]
    /\ UNCHANGED <<now, redis, redisUp, cfg, tasks, connectedClients, sockets, channel>>

SV_Tick ==
    /\ now < SV_MaxTicks * TickMs
    /\ Tick
    /\ obs' = [SV_NoObs EXCEPT !.op = "tick", !.calls = obs.calls]
    /\ UNCHANGED <<redisUp, cfg, tasks, connectedClients, sockets, channel>>

SV_Next ==
    \/ \E sessionId \in SV_Ids, ip \in SV_Addresses : SV_Create(sessionId, ip)
    \/ \E sessionId \in SV_Ids : SV_Touch(sessionId)
    \/ \E sessionId \in SV_Ids : SV_Deactivate(sessionId)
    \/ \E sessionId \in SV_Ids, ip \in SV_Addresses \cup {"none"} :
          SV_Validate(sessionId, ip)
    \/ SV_Tick

SpecValidate == SV_Init /\ [][SV_Next]_vars

\* the stored record of the session, when one is stored and within the
\* time-to-live
SV_Unexpired(sessionId) ==
    /\ SessionService_getSessionKey(sessionId) \in DOMAIN redis
    /\ Live(redis, SessionService_getSessionKey(sessionId), now)
    /\ now - redis[SessionService_getSessionKey(sessionId)].val[4] <= cfg.ttl * 1000

\* C17: validateSession(sessionId, address) returns true exactly when the
\* session is stored and unexpired, is active, and, when an address is
\* supplied, was created from that address; for an unexpired session and a
\* different address it returns false.
C17_ValidateIff ==
    obs.op = "validate" =>
        /\ obs.ret <=>
              /\ SV_Unexpired(obs.id)
              /\ redis[SessionService_getSessionKey(obs.id)].val[8]
              /\ (obs.ip = "none"
                    \/ redis[SessionService_getSessionKey(obs.id)].val[5] = obs.ip)
        /\ (/\ SV_Unexpired(obs.id)
            /\ obs.ip # "none"
            /\ redis[SessionService_getSessionKey(obs.id)].val[5] # obs.ip)
              => (obs.returned /\ ~obs.ret)

\* an active, unexpired session was validated with another address than its
\* own and the answer was false
C17_Witness ==
    /\ obs.op = "validate" /\ obs.returned /\ ~obs.ret
    /\ obs.ip # "none"
    /\ SV_Unexpired(obs.id)
    /\ redis[SessionService_getSessionKey(obs.id)].val[8]
    /\ redis[SessionService_getSessionKey(obs.id)].val[5] # obs.ip


-----------------------------------------------------------------------------
(* SpecGatewayAddr: two connections that may come from different addresses *)

GA_Addresses == {"a1", "a2"}

GA_Init ==
    /\ now = 0
    /\ redis = <<>>
    /\ redisUp = TRUE
    /\ cfg \in GW_Configs
    /\ tasks = [c \in GW_Conns |-> GW_Idle]
    /\ obs = GW_NoObs
    /\ connectedClients = [g \in GW_Procs |-> <<>>]
    /\ sockets = [c \in GW_Conns |->
                    [state |-> IF c = "c3" THEN "closed" ELSE "new", ip |-> "none"]]
    /\ channel = [g \in GW_Procs |-> <<>>]

GA_Next ==
    \/ \E c \in GW_Conns, clientIP \in GA_Addresses : GW_Connect(c, clientIP)
    \/ \E c \in GW_Conns : GW_Disconnect(c)
    \/ \E c \in GW_Conns, data \in GW_Requests : GW_ChatMessage(c, data)
    \/ \E c \in GW_Conns : GW_Register(c)
    \/ \E c \in GW_Conns, outcome \in {"ok", "empty", "error"} : GW_AgentReturn(c, outcome)
    \/ \E sessionId \in GW_Sessions : GW_Publish(sessionId)
    \/ \E g \in GW_Procs : GW_Deliver(g)
    \/ GW_Tick

SpecGatewayAddr == GA_Init /\ [][GA_Next]_vars

\* the session is stored and unexpired and was created from another address
\* than ip
GA_OwnedByOther(sessionId, ip) ==
    /\ SessionService_getSessionKey(sessionId) \in DOMAIN redis
    /\ Live(redis, SessionService_getSessionKey(sessionId), now)
    /\ now - redis[SessionService_getSessionKey(sessionId)].val[4] <= cfg.ttl * 1000
    /\ redis[SessionService_getSessionKey(sessionId)].val[5] # ip

C18_Step ==
    (/\ obs'.kind = "chat"
     /\ obs'.inputs = obs.inputs + 1
     /\ obs'.outcome # "INVALID_REQUEST"
     /\ GA_OwnedByOther(obs'.sessionId, sockets[obs'.conn].ip))
        => /\ obs'.outcome = "SESSION_INVALID"
           /\ obs'.emits = <<Emit(obs'.conn, ErrorMessage("SESSION_INVALID"))>>
           /\ UNCHANGED <<redis, connectedClients, tasks, channel>>

\* C18: a well-formed chat message that carries the id of an existing session
\* and comes from another address than the one the session was created from
\* is answered with SESSION_INVALID and changes nothing: the store (session
\* record, address index, quota counters) and the registry stay as they were
\* and no inference call is started.
C18_ForeignSessionRejected == [][C18_Step]_vars

\* a message for a session of another address was rejected, while the
\* session's quota counter and record are stored
C18_Witness ==
    /\ obs.kind = "chat" /\ obs.outcome = "SESSION_INVALID"
    /\ GA_OwnedByOther(obs.sessionId, sockets[obs.conn].ip)
    /\ sockets[obs.conn].ip \in GA_Addresses
    /\ \E k \in DOMAIN redis : k[1] = "rate_limit" /\ k[2] = <<"ws_msg", obs.sessionId>>


-----------------------------------------------------------------------------
(* SpecCachePattern: set, delete and deletePattern on three keys, in a     *)
(* store that also holds the record of a session                           *)

\* getKeysByPattern returning every cache key
getKeysByPatternAll(store, up, pattern, t) ==
    IF up THEN RedisKeys(store, <<"1.0", "*">>, t) ELSE {}

\* getKeysByPattern: SCAN MATCH pattern until the cursor is back at 0; no
\* keys when the client is missing or a call fails
getKeysByPattern(store, up, pattern, t) ==
    IF up THEN RedisKeys(store, pattern, t) ELSE {}

\* deleteBatch: DEL of the keys of the batch
deleteBatch(store, up, batch, t) ==
    IF batch = {} THEN [store |-> store, threw |-> FALSE]
    ELSE IF up THEN [store |-> RedisDel(store, batch, t).store, threw |-> FALSE]
    ELSE [store |-> store, threw |-> TRUE]

\* keys.slice(i, i + batchSize) of the keys still to delete
FirstBatch(keys, batchSize) ==
    CHOOSE batch \in SUBSET keys : Cardinality(batch) = Min(batchSize, Cardinality(keys))

\* the loop of deletePattern over the batches: the store afterwards, the
\* count, and whether a deleteBatch threw
RECURSIVE deleteBatches(_, _, _, _, _, _)
deleteBatches(store, up, keys, batchSize, deletedCount, t) ==
    IF keys = {} THEN [store |-> store, ret |-> deletedCount, threw |-> FALSE]
    ELSE LET Next(batch, del) ==
                 IF del.threw THEN [store |-> del.store, ret |-> 0, threw |-> TRUE]
                 ELSE deleteBatches(del.store, up, keys \ batch, batchSize,
                                    deletedCount + Cardinality(batch), t)
             Batch(batch) == Next(batch, deleteBatch(store, up, batch, t))
         IN  Batch(FirstBatch(keys, batchSize))

\* CacheService.deletePattern
deletePattern(store, up, config, pattern, t) ==
    IF ~config.enablePatternInvalidation
    THEN [store |-> store, ret |-> 0, threw |-> FALSE]
    ELSE deleteBatches(store, up,
                       getKeysByPattern(store, up, <<"1.0">> \o pattern, t),
                       config.batchInvalidationSize, 0, t)

CP_Keys == {<<"a", "1">>, <<"a", "2">>, <<"b", "1">>}
CP_Values == {JsString(<<"a">>), JsString(<<"b">>)}
CP_Ttls == {1}
CP_Patterns == {<<"a", "*">>, <<"*">>, <<"*", "1">>, <<"b", "1">>, <<"c", "*">>}

CP_Configs ==
    [defaultTtl : {2}, enableCompression : {TRUE}, compressionThreshold : {3},
     maxValueSize : {5}, enablePatternInvalidation : {TRUE},
     batchInvalidationSize : {1, 2}]

CP_Init ==
    /\ now = 0
    /\ redis = RedisSet(<<>>, SessionService_getSessionKey("a"),
                        SessionText(NewSession("a", "a1", 0)))
    /\ redisUp = TRUE
    /\ cfg \in CP_Configs
    /\ tasks = <<>>
    /\ obs = CA_NoObs
    /\ connectedClients = <<>>
    /\ sockets = <<>>
    /\ channel = <<>>

CA_DeletePattern(pattern) ==
    /\ \E r \in {deletePattern(redis, redisUp, cfg, pattern, now)} :
          /\ redis' = r.store
          /\ obs' = [CA_NoObs EXCEPT !.op = "deletePattern", !.ok = ~r.threw,
                                     !.pattern = pattern, !.ret = r.ret]
    /\ UNCHANGED <<now, redisUp, cfg, tasks, connectedClients, sockets, channel>>

CP_Next ==
    \/ \E key \in CP_Keys, value \in CP_Values, ttl \in CP_Ttls : CA_Set(key, value, ttl)
    \/ \E key \in CP_Keys : CA_Delete(key)
    \/ \E pattern \in CP_Patterns : CA_DeletePattern(pattern)
    \/ CA_Tick

SpecCachePattern == CP_Init /\ [][CP_Next]_vars

\* the keys of the store that are cache keys whose name matches the pattern
CP_Matching(store, pattern) ==
    {k \in DOMAIN store : k[1] = "1.0" /\ GlobMatch(pattern, k[2])}

C19_Step ==
    obs'.op = "deletePattern" =>
        /\ obs'.ok
        /\ redis' = [k \in DOMAIN redis \ CP_Matching(redis, obs'.pattern) |-> redis[k]]
        /\ obs'.ret = Cardinality(CP_Matching(redis, obs'.pattern))

GA_MessageCount(store, sessionId) ==
    getCurrentCount(store, TRUE, getWebSocketMessageKey(sessionId),
                    WindowStartOf(now, cfg.messagesPerSession.windowMs), now)

C22_Step ==
    \A c \in GW_Conns :
        /\ (tasks'[c].pc = "register" /\ tasks[c].pc # "register") =>
              /\ tasks[c].pc = "idle"
              /\ GA_MessageCount(redis, tasks'[c].data.sessionId)
                    < cfg.messagesPerSession.maxRequests
              /\ GA_MessageCount(redis', tasks'[c].data.sessionId)
                    = GA_MessageCount(redis, tasks'[c].data.sessionId) + 1
        /\ (tasks'[c].pc = "agent" /\ tasks[c].pc # "agent") =>
              /\ tasks[c].pc = "register"
              /\ redis' = redis
        /\ (tasks[c].pc = "agent" /\ tasks'[c].pc # "agent") => redis' = redis

\* C22: (store reachable) the inference call of a chat message is issued only
\* after the message quota check admitted the message and the message was
\* recorded in the quota window, and the end of the inference call, failed or
\* not, leaves the recorded usage in place.
C22_RecordedBeforeInference == [][C22_Step]_vars

\* an inference call failed and the message it was issued for is still
\* counted
C22_Witness ==
    /\ obs.kind = "return" /\ obs.outcome = "error"
    /\ GA_MessageCount(redis, obs.sessionId) >= 1


C23_Step ==
    \A c \in GW_Conns : \A data \in GW_Requests :
        ((data.message = "" \/ data.sessionId = "") /\ GW_ChatMessage(c, data)) =>
            /\ obs'.outcome = "INVALID_REQUEST"
            /\ obs'.emits = <<Emit(c, ErrorMessage("INVALID_REQUEST"))>>
            /\ UNCHANGED <<redis, connectedClients, tasks, sockets, channel>>

\* C23: a chat message without content or without sessionId is answered with
\* INVALID_REQUEST to its sender and has no other effect: the store (session
\* records, quota counters) and the registry are unchanged and no inference
\* call is started.
C23_MalformedRejected == [][C23_Step]_vars

\* a message without content was rejected although it named a stored session
\* and its connection is registered
C23_Witness ==
    /\ obs.kind = "chat" /\ obs.outcome = "INVALID_REQUEST"
    /\ obs.sessionId = "s1"
    /\ SessionService_getSessionKey("s1") \in DOMAIN redis
    /\ obs.conn \in DOMAIN connectedClients[GW_ProcOf(obs.conn)]


-----------------------------------------------------------------------------
(* SpecRejections: the process serves HTTP requests through the            *)
(* RateLimitMiddleware (configurations with perIP) or chat messages        *)
(* through the ChatGateway (configurations with messagesPerSession)        *)

RJ_Http == "perIP" \in DOMAIN cfg

RJ_Init == MW_Init \/ GA_Init

RJ_Next ==
    \/ RJ_Http /\ MW_Next
    \/ ~RJ_Http /\ GA_Next

SpecRejections == RJ_Init /\ [][RJ_Next]_vars

\* the quota window counters of a store
RJ_Counters(store) ==
    [k \in {j \in DOMAIN store : j[1] = "rate_limit"} |-> store[k]]

\* messageCount of the stored record of the session (0 when none is stored)
RJ_SessionMessages(store, sessionId) ==
    IF SessionService_getSessionKey(sessionId) \in DOMAIN store
    THEN SessionParse(store[SessionService_getSessionKey(sessionId)].val).messageCount
    ELSE 0

C24_Step ==
    /\ RJ_Http =>
          \A ip \in MW_Addresses : \A sessionId \in MW_Sessions :
              (~obs'.composite.allowed /\ MW_Use(ip, sessionId)) =>
                  (obs'.status = 429 /\ redis' = redis)
    /\ ~RJ_Http =>
          \A c \in GW_Conns : \A data \in GW_Requests :
              (obs'.outcome = "MESSAGE_RATE_LIMIT" /\ GW_ChatMessage(c, data)) =>
                  /\ RJ_Counters(redis') = RJ_Counters(redis)
                  /\ RJ_SessionMessages(redis', data.sessionId)
                        = RJ_SessionMessages(redis, data.sessionId)
                  /\ UNCHANGED <<tasks, connectedClients>>

\* C24: a request that the composite quota decision rejects increments none
\* of the address, session and endpoint counters; a chat message that the
\* message quota rejects increments neither the message counter nor the
\* session's message count, starts no inference call and leaves the registry
\* unchanged.
C24_RejectedNotCounted == [][C24_Step]_vars

\* a chat message was rejected by the message quota while the counter of its
\* session stands at the maximum
C24_Witness ==
    /\ ~RJ_Http
    /\ obs.kind = "chat" /\ obs.outcome = "MESSAGE_RATE_LIMIT"
    /\ GA_MessageCount(redis, obs.sessionId) = cfg.messagesPerSession.maxRequests
    /\ RJ_SessionMessages(redis, obs.sessionId) = cfg.messagesPerSession.maxRequests


-----------------------------------------------------------------------------
(* SpecGatewayConn: two connections from two addresses, where one          *)
(* connection per address and window is allowed                            *)

GC_Configs ==
    [ttl : {1}, maxSessionsPerIP : {1}, extendOnActivity : {TRUE},
     connectionsPerIP : {[windowMs |-> 500, maxRequests |-> 1]},
     messagesPerSession : {[windowMs |-> 1000, maxRequests |-> 2]}]

GC_Init ==
    /\ now = 0
    /\ redis = <<>>
    /\ redisUp = TRUE
    /\ cfg \in GC_Configs
    /\ tasks = [c \in GW_Conns |-> GW_Idle]
    /\ obs = GW_NoObs
    /\ connectedClients = [g \in GW_Procs |-> <<>>]
    /\ sockets = [c \in GW_Conns |->
                    [state |-> IF c = "c3" THEN "closed" ELSE "new", ip |-> "none"]]
    /\ channel = [g \in GW_Procs |-> <<>>]

\* the gateway's handlers and the clock; nothing is published on the channel,
\* so the subscription callback has nothing to deliver
GC_Next ==
    \/ \E c \in GW_Conns, clientIP \in GA_Addresses : GW_Connect(c, clientIP)
    \/ \E c \in GW_Conns : GW_Disconnect(c)
    \/ \E c \in GW_Conns, data \in GW_Requests : GW_ChatMessage(c, data)
    \/ \E c \in GW_Conns : GW_Register(c)
    \/ \E c \in GW_Conns, outcome \in {"ok", "empty", "error"} : GW_AgentReturn(c, outcome)
    \/ GW_Tick

SpecGatewayConn == GC_Init /\ [][GC_Next]_vars

\* the connections recorded for the address in the quota window of now
GC_ConnectionCount(store, ip) ==
    getCurrentCount(store, TRUE, getWebSocketConnectionKey(ip),
                    WindowStartOf(now, cfg.connectionsPerIP.windowMs), now)

\* the last step rejected the connection c
GC_Rejected(c) ==
    /\ obs.kind = "connect" /\ obs.conn = c
    /\ obs.emits = <<Emit(c, ErrorMessage("CONNECTION_RATE_LIMIT"))>>

C25_Step ==
    /\ \A c \in GW_Conns : \A clientIP \in GA_Addresses :
          GW_Connect(c, clientIP) =>
              /\ c \notin DOMAIN connectedClients'[GW_ProcOf(c)]
              /\ IF GC_ConnectionCount(redis, clientIP) < cfg.connectionsPerIP.maxRequests
                 THEN /\ sockets'[c].state = "open"
                      /\ GC_ConnectionCount(redis', clientIP)
                            = GC_ConnectionCount(redis, clientIP) + 1
                      /\ obs'.emits = <<Emit(c, ChatMessage("system", "welcome", TRUE))>>
                 ELSE /\ sockets'[c].state = "closed"
                      /\ redis' = redis
                      /\ obs'.emits = <<Emit(c, ErrorMessage("CONNECTION_RATE_LIMIT"))>>
    /\ \A c \in GW_Conns :
          (/\ c \in DOMAIN connectedClients'[GW_ProcOf(c)]
           /\ c \notin DOMAIN connectedClients[GW_ProcOf(c)])
              => /\ tasks[c].pc = "register"
                 /\ connectedClients'[GW_ProcOf(c)][c] = tasks[c].data.sessionId

-----------------------------------------------------------------------------
(* handleDisconnect, on SpecGatewayConn                                    *)

C26_Step ==
    \A c \in GW_Conns :
        GW_Disconnect(c) =>
            /\ c \notin DOMAIN connectedClients'[GW_ProcOf(c)]
            /\ \A g \in GW_Procs :
                  /\ DOMAIN connectedClients'[g] = DOMAIN connectedClients[g] \ {c}
                  /\ \A k \in DOMAIN connectedClients'[g] :
                        connectedClients'[g][k] = connectedClients[g][k]
            /\ redis' = redis

\* C26: handling the disconnect of a connection removes that connection's
\* registry entry and leaves every other registry entry and the whole store
\* (session records, address indexes, quota counters) as they were.
C26_DisconnectOnlyUnregisters == [][C26_Step]_vars

\* a connection was disconnected while another connection of the same process
\* is registered and the store holds a session record and a quota counter
C26_Witness ==
    /\ obs.kind = "disconnect"
    /\ obs.conn \notin DOMAIN connectedClients[GW_ProcOf(obs.conn)]
    /\ \E d \in GW_Conns \ {obs.conn} :
          /\ GW_ProcOf(d) = GW_ProcOf(obs.conn)
          /\ d \in DOMAIN connectedClients[GW_ProcOf(d)]
    /\ \E s \in GW_Sessions :
          /\ SessionService_getSessionKey(s) \in DOMAIN redis
          /\ GA_MessageCount(redis, s) >= 1


-----------------------------------------------------------------------------
(* SpecSweep: cleanupExpiredSessions beside createSession,                  *)
(* incrementMessageCount and updateSession; the sweep takes one step per    *)
(* key of its loop, and a step of it that can be taken is taken             *)

SW_Idle == [pc |-> "idle", pending |-> {}, t0 |-> 0, removed |-> 0,
            expiredAtStart |-> {}, spinId |-> "none"]

SW_Init ==
    /\ now = 0
    /\ redis = <<>>
    /\ redisUp = TRUE
    /\ cfg \in SV_Configs
    /\ tasks = SW_Idle
    /\ obs = SV_NoObs
    /\ connectedClients = <<>>
    /\ sockets = <<>>
    /\ channel = <<>>

\* RedisService.keys, lines 190-202
RedisService_keys(store, up, pattern, t) ==
    IF up THEN RedisKeys(store, pattern, t) ELSE {}

\* the ids whose record is stored with a lastActivity older than the
\* time-to-live
SW_ActivityExpired(store, t) ==
    {id \in SV_Ids :
        SessionLookup(store, redisUp, cfg, id, t).kind = "expired"}

\* cleanupExpiredSessions, lines 272-276
SW_Start ==
    /\ tasks.pc = "idle"
    /\ tasks' = [SW_Idle EXCEPT
                    !.pc = "loop",
                    !.pending = RedisService_keys(redis, redisUp,
                                    <<"session", "*">>, now),
                    !.t0 = now,
                    !.expiredAtStart = SW_ActivityExpired(redis, now)]
    /\ obs' = [SV_NoObs EXCEPT !.op = "sweep.start", !.calls = obs.calls]
    /\ UNCHANGED <<now, redis, redisUp, cfg, connectedClients, sockets, channel>>

\* one pass of the loop, lines 278-293: the key is read; a record that is
\* inactive or older than the time-to-live at the sampled time is handed to
\* deleteSession, whose getSession does not return while the record is
\* stored and expired
SW_Process(key) ==
    /\ tasks.pc = "loop"
    /\ key \in tasks.pending
    /\ \E str \in {RedisService_get(redis, redisUp, key, now)} :
          IF str # Nil
             /\ (~SessionParse(str).isActive
                   \/ tasks.t0 - SessionParse(str).lastActivity > cfg.ttl * 1000)
          THEN \E r \in {deleteSession(redis, redisUp, cfg,
                                       SessionParse(str).sessionId, now)} :
                  /\ redis' = IF r.spins THEN redis ELSE r.store
                  /\ tasks' = IF r.spins
                              THEN [tasks EXCEPT !.pc = "spin",
                                                 !.pending = @ \ {key},
                                                 !.spinId = SessionParse(str).sessionId]
                              ELSE [tasks EXCEPT !.pending = @ \ {key},
                                                 !.removed = @ + 1]
          ELSE /\ redis' = redis
               /\ tasks' = [tasks EXCEPT !.pending = @ \ {key}]
    /\ obs' = [SV_NoObs EXCEPT !.op = "sweep.key", !.calls = obs.calls]
    /\ UNCHANGED <<now, redisUp, cfg, connectedClients, sockets, channel>>

\* a read of the getSession/deleteSession recursion finds the record gone or
\* replaced by an unexpired one (which the innermost deleteSession deletes):
\* the calls return and the loop goes on
SW_Resume ==
    /\ tasks.pc = "spin"
    /\ SessionLookup(redis, redisUp, cfg, tasks.spinId, now).kind # "expired"
    /\ redis' = deleteSession(redis, redisUp, cfg, tasks.spinId, now).store
    /\ tasks' = [tasks EXCEPT !.pc = "loop", !.spinId = "none", !.removed = @ + 1]
    /\ obs' = [SV_NoObs EXCEPT !.op = "sweep.key", !.calls = obs.calls]
    /\ UNCHANGED <<now, redisUp, cfg, connectedClients, sockets, channel>>

\* lines 295-302: the sweep returns its counts
SW_Finish ==
    /\ tasks.pc = "loop"
    /\ tasks.pending = {}
    /\ tasks' = [tasks EXCEPT !.pc = "idle"]
    /\ obs' = [SV_NoObs EXCEPT !.op = "sweep.done", !.calls = obs.calls]
    /\ UNCHANGED <<now, redis, redisUp, cfg, connectedClients, sockets, channel>>

SW_Step ==
    \/ \E key \in tasks.pending : SW_Process(key)
    \/ SW_Resume
    \/ SW_Finish

SW_Next ==
    \/ \E sessionId \in SV_Ids : SV_Create(sessionId, "a1")
    \/ \E sessionId \in SV_Ids : SV_Touch(sessionId)
    \/ \E sessionId \in SV_Ids : SV_Deactivate(sessionId)
    \/ SV_Tick
    \/ SW_Start
    \/ \E key \in tasks.pending : SW_Process(key)
    \/ SW_Resume
    \/ SW_Finish

SpecSweep ==
    /\ SW_Init
    /\ [][SW_Next]_vars
    /\ WF_vars(SV_Tick)
    /\ WF_vars(SW_Step)

\* when a run of the sweep has completed, no record that was stored with an
\* expired activity when the run started is stored with that activity, and no
\* address index holds the id of a session without record
SW_SweptClean ==
    (obs.op = "sweep.done") =>
        \A id \in tasks.expiredAtStart :
            /\ SessionLookup(redis, redisUp, cfg, id, now).kind # "expired"
            /\ (SessionService_getSessionKey(id) \notin DOMAIN redis =>
                  \A ip \in SV_Addresses :
                      id \notin RedisService_smembers(redis, redisUp,
                                    SessionService_getIPKey(ip), now))

\* C27: a run of the periodic sweep completes, and when it has completed no
\* session record whose activity had expired at the start of the run remains
\* and no removed session is a member of its address index.
C27_SweepCompletesClean ==
    /\ [](SW_SweptClean)
    /\ (tasks.pc # "idle") ~> (tasks.pc = "idle")


-----------------------------------------------------------------------------
(* SpecExtend: createSession, incrementMessageCount (updateSession) and    *)
(* getSession with extendOnActivity; obs.last holds, for each session id,  *)
(* the time of its last create or update (-1: none)                        *)

XT_Configs == [ttl : {1}, maxSessionsPerIP : {2}, extendOnActivity : {TRUE}]

XT_NoObs == [op |-> "none", id |-> "none", returned |-> FALSE, found |-> FALSE,
             calls |-> 0, last |-> [id \in SV_Ids |-> -1]]

XT_Init ==
    /\ now = 0
    /\ redis = <<>>
    /\ redisUp = TRUE
    /\ cfg \in XT_Configs
    /\ tasks = <<>>
    /\ obs = XT_NoObs
    /\ connectedClients = <<>>
    /\ sockets = <<>>
    /\ channel = <<>>

XT_Create(sessionId, ip) ==
    /\ \E r \in {createSession(redis, redisUp, cfg, sessionId, ip, now)} :
          /\ ~r.spins
          /\ obs.calls < SV_MaxCalls
          /\ redis' = r.store
          /\ obs' = [obs EXCEPT !.op = "create", !.id = sessionId,
                                !.returned = TRUE, !.found = ~r.threw,
                                !.calls = @ + 1,
                                !.last[sessionId] = IF r.threw THEN @ ELSE now]
    /\ UNCHANGED <<now, redisUp, cfg, tasks, connectedClients, sockets, channel>>

\* incrementMessageCount(sessionId): updateSession with lastActivity = Date.now()
XT_Update(sessionId) ==
    /\ \E r \in {incrementMessageCount(redis, redisUp, cfg, sessionId, now)} :
          /\ ~r.spins
          /\ obs.calls < SV_MaxCalls
          /\ redis' = r.store
          /\ obs' = [obs EXCEPT !.op = "update", !.id = sessionId,
                                !.returned = TRUE, !.found = ~r.threw,
                                !.calls = @ + 1,
                                !.last[sessionId] = IF r.threw THEN @ ELSE now]
    /\ UNCHANGED <<now, redisUp, cfg, tasks, connectedClients, sockets, channel>>

\* getSession(sessionId); obs.returned is false when the call does not return
XT_Get(sessionId) ==
    /\ \E got \in {getSession(redis, redisUp, cfg, sessionId, now)} :
          /\ redis' = got.store
          /\ obs' = [obs EXCEPT !.op = "get", !.id = sessionId,
                                !.returned = ~got.spins,
                                !.found = ~got.spins /\ got.found]
    /\ UNCHANGED <<now, redisUp, cfg, tasks, connectedClients, sockets, channel>>

XT_Tick ==
    /\ now < SV_MaxTicks * TickMs
    /\ Tick
    /\ obs' = [obs EXCEPT !.op = "tick"]
    /\ UNCHANGED <<redisUp, cfg, tasks, connectedClients, sockets, channel>>

XT_Next ==
    \/ \E sessionId \in SV_Ids, ip \in SV_Addresses : XT_Create(sessionId, ip)
    \/ \E sessionId \in SV_Ids : XT_Update(sessionId)
    \/ \E sessionId \in SV_Ids : XT_Get(sessionId)
    \/ XT_Tick

SpecExtend == XT_Init /\ [][XT_Next]_vars

\* C28: with extendOnActivity, getSession of a session whose last create or
\* update is less than the time-to-live ago returns the session, and
\* getSession of a session whose last create or update is more than the
\* time-to-live ago returns absent.
C28_ExtendedByActivity ==
    (obs.op = "get" /\ obs.last[obs.id] >= 0) =>
        /\ (now - obs.last[obs.id] < cfg.ttl * 1000) => (obs.returned /\ obs.found)
        /\ (now - obs.last[obs.id] > cfg.ttl * 1000) => (obs.returned /\ ~obs.found)

\* a session created more than the time-to-live ago and updated since is
\* returned by getSession
C28_Witness ==
    /\ obs.op = "get" /\ obs.found
    /\ now - SessionParse(redis[SessionService_getSessionKey(obs.id)].val).createdAt
          > cfg.ttl * 1000
    /\ now - obs.last[obs.id] < cfg.ttl * 1000

\* getSession of a session that was not updated for longer than the
\* time-to-live returned absent
C28_WitnessIdle ==
    /\ obs.op = "get" /\ obs.returned /\ ~obs.found
    /\ obs.last[obs.id] >= 0
    /\ now - obs.last[obs.id] > cfg.ttl * 1000


-----------------------------------------------------------------------------
(* SpecReset: recordRequest and resetRateLimit on the quota keys of several *)
(* identifiers.  An identifier is given by its ':'-separated parts: <<"a">> *)
(* is "a", <<"ab">> is "ab" and <<"a", "b">> is "a:b"                       *)

RR_MaxTicks == 2
RR_MaxOps == 3

RR_Types == {"ip", "session"}
RR_Identifiers == {<<"a">>, <<"ab">>, <<"a", "b">>}
RR_Rules == [windowMs : {1000}, maxRequests : {2}]

RR_NoObs == [op |-> "none", type |-> "none", identifier |-> <<>>, threw |-> FALSE,
             ops |-> 0]

RR_Init ==
    /\ now = 0
    /\ redis = <<>>
    /\ redisUp = TRUE
    /\ cfg \in [rule : RR_Rules]
    /\ tasks = <<>>
    /\ obs = RR_NoObs
    /\ connectedClients = <<>>
    /\ sockets = <<>>
    /\ channel = <<>>

\* getIPKey, getSessionKey, getGlobalKey: `rate_limit:${type}:${identifier}`
RateLimitKey(type, identifier) == <<"rate_limit", <<type>> \o identifier, NoWindow>>

\* the ':'-separated parts of the text of a key, the window start included
KeyText(key) ==
    KeySegments(key) \o (IF key[3] = NoWindow THEN <<>> ELSE <<ToString(key[3])>>)

\* resetRateLimit, lines 1039-1069: KEYS `${key}:*`, then DEL of what it found
resetRateLimit(store, up, type, identifier, t) ==
    LET Cleared(keys) ==
            IF keys # {} THEN RedisService_del(store, up, keys, t).store ELSE store
    IN  IF type \notin {"ip", "session", "global"}
        THEN [store |-> store, threw |-> TRUE]
        ELSE [store |-> Cleared(IF up
                                THEN {k \in DOMAIN store :
                                        /\ Live(store, k, t)
                                        /\ GlobMatch(
                                             KeySegments(RateLimitKey(type, identifier))
                                                \o <<"*">>,
                                             KeyText(k))}
                                ELSE {}),
              threw |-> FALSE]

RR_Record(type, identifier) ==
    /\ obs.ops < RR_MaxOps
    /\ redis' = recordRequest(redis, redisUp, RateLimitKey(type, identifier),
                              cfg.rule, now)
    /\ obs' = [RR_NoObs EXCEPT !.op = "record", !.type = type,
                               !.identifier = identifier, !.ops = obs.ops + 1]
    /\ UNCHANGED <<now, redisUp, cfg, tasks, connectedClients, sockets, channel>>

RR_Reset(type, identifier) ==
    /\ \E r \in {resetRateLimit(redis, redisUp, type, identifier, now)} :
          /\ redis' = r.store
          /\ obs' = [RR_NoObs EXCEPT !.op = "reset", !.type = type,
                                     !.identifier = identifier, !.threw = r.threw,
                                     !.ops = obs.ops]
    /\ UNCHANGED <<now, redisUp, cfg, tasks, connectedClients, sockets, channel>>

RR_Tick ==
    /\ now < RR_MaxTicks * TickMs
    /\ Tick
    /\ obs' = [RR_NoObs EXCEPT !.op = "tick", !.ops = obs.ops]
    /\ UNCHANGED <<redisUp, cfg, tasks, connectedClients, sockets, channel>>

RR_Next ==
    \/ \E type \in RR_Types, identifier \in RR_Identifiers : RR_Record(type, identifier)
    \/ \E type \in RR_Types \cup {"user"}, identifier \in RR_Identifiers :
          RR_Reset(type, identifier)
    \/ RR_Tick

SpecReset == RR_Init /\ [][RR_Next]_vars

\* the window counters stored for the identifier: the keys whose text is the
\* identifier's key followed by one window start
RR_CountersOf(store, type, identifier) ==
    {k \in DOMAIN store :
        /\ KeySegments(k) = KeySegments(RateLimitKey(type, identifier))
        /\ k[3] # NoWindow}

C29_Step ==
    \A type \in RR_Types, identifier \in RR_Identifiers :
        RR_Reset(type, identifier) =>
            /\ RR_CountersOf(redis', type, identifier) = {}
            /\ checkRateLimit(redis', redisUp, RateLimitKey(type, identifier),
                              cfg.rule, now, now).allowed
            /\ getCurrentCount(redis', redisUp, RateLimitKey(type, identifier),
                               WindowStartOf(now, cfg.rule.windowMs), now) = 0
            /\ \A type2 \in RR_Types, other \in RR_Identifiers :
                  (<<type2, other>> # <<type, identifier>>) =>
                      \A k \in RR_CountersOf(redis, type2, other) :
                          k \in DOMAIN redis' /\ redis'[k] = redis[k]

\* C29: resetRateLimit(type, identifier) removes every window counter of that
\* identifier, so that the next check of it is admitted with count 0, and
\* leaves the window counters of every other identifier as they were, also
\* those of an identifier of which the reset identifier is a prefix.
C29_ResetOnlyThatIdentifier == [][C29_Step]_vars


-----------------------------------------------------------------------------
(* SpecPubSub: RedisService.subscribe and publish with the store reachable, *)
(* and the dispatch of the messages the subscriber connection receives.     *)
(* channel.subscriptions is the Map of the adapter, channel.subscribed the  *)
(* channels the subscriber connection is subscribed to at the server,       *)
(* channel.inflight the messages sent to it and not yet dispatched; each    *)
(* carries in `due` the handlers whose subscribe on its channel had         *)
(* returned when it was published.  The event loop dispatches every         *)
(* received message.                                                        *)

PS_MaxOps == 4

PS_Channels == {"logs", "chat_tokens"}
PS_Handlers == {"h1", "h2"}
PS_Messages == {"m1", "m2"}

PS_NoObs == [op |-> "none", invoked |-> <<>>, returned |-> {}, ops |-> 0]

PS_Init ==
    /\ now = 0
    /\ redis = <<>>
    /\ redisUp = TRUE
    /\ cfg = <<>>
    /\ tasks = <<>>
    /\ obs = PS_NoObs
    /\ connectedClients = <<>>
    /\ sockets = <<>>
    /\ channel = [subscriptions |-> <<>>, subscribed |-> {}, inflight |-> <<>>]

\* subscribe(channel, callback), lines 84-100: subscriptions.set, then SUBSCRIBE
PS_Subscribe(ch, handler) ==
    /\ obs.ops < PS_MaxOps
    /\ channel' = [channel EXCEPT
                      !.subscriptions =
                          [c \in DOMAIN @ \cup {ch} |-> IF c = ch THEN handler ELSE @[c]],
                      !.subscribed = @ \cup {ch}]
    /\ obs' = [obs EXCEPT !.op = "subscribe", !.invoked = <<>>,
                          !.returned = @ \cup {<<ch, handler>>}, !.ops = @ + 1]
    /\ UNCHANGED <<now, redis, redisUp, cfg, tasks, connectedClients, sockets>>

\* publish(channel, message), lines 68-82: the server sends the message to
\* the subscriber connection when that is subscribed to the channel
PS_Publish(ch, message) ==
    /\ obs.ops < PS_MaxOps
    /\ channel' = [channel EXCEPT
                      !.inflight =
                          IF ch \in channel.subscribed
                          THEN Append(@, [channel |-> ch, message |-> message,
                                          due |-> {h \in PS_Handlers :
                                                     <<ch, h>> \in obs.returned}])
                          ELSE @]
    /\ obs' = [obs EXCEPT !.op = "publish", !.invoked = <<>>, !.ops = @ + 1]
    /\ UNCHANGED <<now, redis, redisUp, cfg, tasks, connectedClients, sockets>>

\* the 'message' listener, lines 43-48: the callback the Map holds for the
\* channel is called with the message
PS_Dispatch ==
    /\ channel.inflight # <<>>
    /\ channel' = [channel EXCEPT !.inflight = Tail(@)]
    /\ obs' = [obs EXCEPT
                  !.op = "dispatch",
                  !.invoked =
                      IF Head(channel.inflight).channel \in DOMAIN channel.subscriptions
                      THEN <<[handler |->
                                 channel.subscriptions[Head(channel.inflight).channel],
                              message |-> Head(channel.inflight).message]>>
                      ELSE <<>>]
    /\ UNCHANGED <<now, redis, redisUp, cfg, tasks, connectedClients, sockets>>

PS_Next ==
    \/ \E ch \in PS_Channels, handler \in PS_Handlers : PS_Subscribe(ch, handler)
    \/ \E ch \in PS_Channels, message \in PS_Messages : PS_Publish(ch, message)
    \/ PS_Dispatch

SpecPubSub == PS_Init /\ [][PS_Next]_vars /\ WF_vars(PS_Dispatch)

\* the number of calls of the handler with the message in the last step
PS_Calls(invoked, handler, message) ==
    Cardinality({i \in 1..Len(invoked) :
                    invoked[i] = [handler |-> handler, message |-> message]})

\* the dispatch of a published message calls each handler that was subscribed
\* to its channel before the publish once with the message, and calls no
\* handler that was not subscribed to that channel
C30_Step ==
    PS_Dispatch =>
        /\ \A h \in Head(channel.inflight).due :
              PS_Calls(obs'.invoked, h, Head(channel.inflight).message) = 1
        /\ \A i \in 1..Len(obs'.invoked) :
              /\ <<Head(channel.inflight).channel, obs'.invoked[i].handler>>
                    \in obs.returned
              /\ obs'.invoked[i].message = Head(channel.inflight).message

\* C30: (store reachable) once subscribe(channel, handler) has returned, every
\* later publish(channel, message) is eventually dispatched, and its dispatch
\* calls that handler exactly once with the message and calls no handler
\* that is registered for a different channel only.
C30_PublishReachesHandler ==
    /\ [][C30_Step]_vars
    /\ (channel.inflight # <<>>) ~> (channel.inflight = <<>>)


-----------------------------------------------------------------------------
(* SpecCount: incrementMessageCount of one session called by the chat      *)
(* handlers of two gateway processes, one step per awaited store operation *)

MC_MaxTicks == 2
MC_MaxCalls == 3

MC_Procs == {"g1", "g2"}
MC_Id == "s1"

MC_Idle == [pc |-> "idle", newCount |-> 0, data |-> NoSession]

\* obs.done counts the calls that have passed the message-count step
MC_Init ==
    /\ now = 0
    /\ redis = <<>>
    /\ redisUp = TRUE
    /\ cfg \in [ttl : {1}, maxSessionsPerIP : {2}, extendOnActivity : {TRUE}]
    /\ tasks = [p \in MC_Procs |-> MC_Idle]
    /\ obs = [created |-> FALSE, calls |-> 0, done |-> 0]
    /\ connectedClients = <<>>
    /\ sockets = <<>>
    /\ channel = <<>>

\* createSession of the first message of the session
MC_Create ==
    /\ ~obs.created
    /\ redis' = createSession(redis, redisUp, cfg, MC_Id, "a1", now).store
    /\ obs' = [obs EXCEPT !.created = TRUE]
    /\ UNCHANGED <<now, redisUp, cfg, tasks, connectedClients, sockets, channel>>

\* incrementMessageCount, lines 210-215: getSession, newCount
MC_IncGet(p) ==
    /\ tasks[p].pc = "idle"
    /\ obs.calls < MC_MaxCalls
    /\ \E got \in {getSession(redis, redisUp, cfg, MC_Id, now)} :
          /\ ~got.spins
          /\ got.found
          /\ tasks' = [tasks EXCEPT ![p] =
                          [MC_Idle EXCEPT !.pc = "inc.update",
                                          !.newCount = got.session.messageCount + 1]]
    /\ obs' = [obs EXCEPT !.calls = @ + 1]
    /\ UNCHANGED <<now, redis, redisUp, cfg, connectedClients, sockets, channel>>

\* updateSession, lines 126-129: getSession again; without record null is
\* returned and nothing is written
MC_UpdateGet(p) ==
    /\ tasks[p].pc = "inc.update"
    /\ \E got \in {getSession(redis, redisUp, cfg, MC_Id, now)} :
          /\ ~got.spins
          /\ tasks' = [tasks EXCEPT ![p] =
                          IF got.found
                          THEN [@ EXCEPT !.pc = "inc.write", !.data = got.session]
                          ELSE MC_Idle]
    /\ UNCHANGED <<now, redis, redisUp, cfg, obs, connectedClients, sockets, channel>>

\* updateSession, lines 131-149: the record read is written with
\* messageCount = newCount
MC_UpdateWrite(p) ==
    /\ tasks[p].pc = "inc.write"
    /\ redis' = updateSessionWrite(redis, redisUp, cfg, tasks[p].data,
                                   tasks[p].newCount, now)
    /\ tasks' = [tasks EXCEPT ![p] = MC_Idle]
    /\ obs' = [obs EXCEPT !.done = @ + 1]
    /\ UNCHANGED <<now, redisUp, cfg, connectedClients, sockets, channel>>

MC_Tick ==
    /\ now < MC_MaxTicks * TickMs
    /\ Tick
    /\ UNCHANGED <<redisUp, cfg, tasks, obs, connectedClients, sockets, channel>>

MC_Next ==
    \/ MC_Create
    \/ \E p \in MC_Procs : MC_IncGet(p)
    \/ \E p \in MC_Procs : MC_UpdateGet(p)
    \/ \E p \in MC_Procs : MC_UpdateWrite(p)
    \/ MC_Tick

SpecCount == MC_Init /\ [][MC_Next]_vars

\* C31: when no message-count step is in progress, the stored messageCount
\* of the session equals the number of admitted messages whose handling has
\* passed the message-count step.
C31_CountEqualsAdmitted ==
    (/\ \A p \in MC_Procs : tasks[p].pc = "idle"
     /\ SessionService_getSessionKey(MC_Id) \in DOMAIN redis)
        => SessionParse(redis[SessionService_getSessionKey(MC_Id)].val).messageCount
              = obs.done


-----------------------------------------------------------------------------
(* checkRateLimit as a function of the rule, the time and the stored       *)
(* count, on SpecQuotaSeq                                                  *)

\* the least n with n * 1000 >= x, for x >= 0
QS_CeilSeconds(x) ==
    CHOOSE n \in 0..(x \div 1000 + 1) : n * 1000 >= x /\ (n - 1) * 1000 < x

\* the multiple of w that starts the window of t
QS_WindowOf(t, w) ==
    CHOOSE ws \in 0..t : ws % w = 0 /\ ws <= t /\ t < ws + w

\* the count stored for the window of now (0 without key)
QS_StoredCount ==
    IF WindowKey(QS_Key, QS_WindowOf(now, cfg.rule.windowMs)) \in DOMAIN redis
    THEN parseInt(redis[WindowKey(QS_Key, QS_WindowOf(now, cfg.rule.windowMs))].val)
    ELSE 0

C32_Step ==
    QS_Request =>
        /\ obs'.res.allowed = (QS_StoredCount < cfg.rule.maxRequests)
        /\ obs'.res.totalRequests = cfg.rule.maxRequests
        /\ obs'.res.resetTime
              = QS_CeilSeconds(QS_WindowOf(now, cfg.rule.windowMs) + cfg.rule.windowMs)
        /\ obs'.res.allowed =>
              /\ obs'.res.remainingRequests = cfg.rule.maxRequests - QS_StoredCount - 1
              /\ obs'.res.remainingRequests >= 0
              /\ obs'.res.retryAfter = NoValue
        /\ ~obs'.res.allowed =>
              /\ obs'.res.remainingRequests = 0
              /\ obs'.res.retryAfter
                    = QS_CeilSeconds(QS_WindowOf(now, cfg.rule.windowMs)
                                        + cfg.rule.windowMs - now)
              /\ obs'.res.retryAfter >= 1

\* C32: for the rule (w, m), the time now and the stored count c,
\* checkRateLimit returns allowed = (c < m); when allowed, remaining =
\* m - c - 1 >= 0 and no retryAfter; when rejected, remaining = 0 and
\* retryAfter = ceil((windowStart + w - now) / 1000) >= 1; resetTime =
\* ceil((windowStart + w) / 1000), with windowStart = floor(now / w) * w.
C32_CheckResult == [][C32_Step]_vars

\* a check was rejected in the middle of a window that does not end on a
\* whole second
C32_Witness ==
    /\ obs.has /\ ~obs.res.allowed
    /\ now > obs.windowStart
    /\ (obs.windowStart + cfg.rule.windowMs) % 1000 # 0
    /\ obs.res.retryAfter = 1 /\ obs.res.resetTime = 2


-----------------------------------------------------------------------------
(* the expiry of the window keys, on SpecQuotaConc                          *)

\* the step completes the record operation of p: an increment that did not
\* return 1, or the expire after the one that did
QC_RecordCompletes(p) ==
    \/ (QC_Incr(p) /\ tasks'[p].pc = "idle")
    \/ QC_Expire(p)

C33_Step ==
    /\ \A ws \in QC_Windows :
          (/\ WindowKey(QC_Key, ws) \in DOMAIN redis
           /\ WindowKey(QC_Key, ws) \in DOMAIN redis'
           /\ redis'[WindowKey(QC_Key, ws)].exp # redis[WindowKey(QC_Key, ws)].exp)
              => /\ redis[WindowKey(QC_Key, ws)].exp = NoExpiry
                 /\ redis'[WindowKey(QC_Key, ws)].exp
                       = now + (CeilDiv(cfg.rule.windowMs, 1000) + 1) * 1000
                 /\ \E p \in QC_Procs :
                       tasks[p].pc = "expire" /\ tasks[p].windowStart = ws /\ QC_Expire(p)
    /\ \A p \in QC_Procs :
          QC_RecordCompletes(p) =>
              /\ WindowKey(QC_Key, tasks[p].windowStart) \in DOMAIN redis'
              /\ redis'[WindowKey(QC_Key, tasks[p].windowStart)].exp # NoExpiry

\* C33: the expiry of a window key is set once, by the record operation
\* whose increment returned 1, to ceil(windowMs / 1000) + 1 seconds, later
\* increments do not change it, and when a record operation completes the
\* window key it incremented carries an expiry.
C33_ExpirySetOnce == [][C33_Step]_vars


-----------------------------------------------------------------------------
(* SpecCacheConc: CacheService.get of one caller, one step per awaited     *)
(* store operation, beside set and delete of the same key by another       *)
(* caller; obs.last is the last completed set or delete                    *)

CG_MaxTicks == 2
CG_MaxOps == 4

CG_Key == <<"a", "1">>
CG_Values == {JsString(<<"a">>), JsString(<<"b">>)}

CG_Idle == [pc |-> "idle", entry |-> <<>>]

CG_Init ==
    /\ now = 0
    /\ redis = <<>>
    /\ redisUp = TRUE
    /\ cfg \in CA_Configs
    /\ tasks = CG_Idle
    /\ obs = [last |-> "none", value |-> JsNull, ops |-> 0]
    /\ connectedClients = <<>>
    /\ sockets = <<>>
    /\ channel = <<>>

\* set(key, value, ttl), lines 406-454
CG_Set(value) ==
    /\ obs.ops < CG_MaxOps
    /\ \E r \in {CacheService_set(redis, redisUp, cfg, CG_Key, value, 1, now)} :
          /\ ~r.threw
          /\ redis' = r.store
    /\ obs' = [last |-> "set", value |-> value, ops |-> obs.ops + 1]
    /\ UNCHANGED <<now, redisUp, cfg, tasks, connectedClients, sockets, channel>>

\* delete(key), lines 459-473
CG_Delete ==
    /\ obs.ops < CG_MaxOps
    /\ redis' = CacheService_delete(redis, redisUp, CG_Key, now).store
    /\ obs' = [last |-> "delete", value |-> JsNull, ops |-> obs.ops + 1]
    /\ UNCHANGED <<now, redisUp, cfg, tasks, connectedClients, sockets, channel>>

\* get(key), lines 359-378: the entry is read; a missing entry is a miss, an
\* expired one is deleted, another one gets lastAccessed = new Date()
CG_GetRead ==
    /\ tasks.pc = "idle"
    /\ obs.ops < CG_MaxOps
    /\ \E cached \in {getFromRedis(redis, redisUp, CacheKey(CG_Key), now)} :
          IF cached = Nil
          THEN /\ redis' = redis
               /\ tasks' = CG_Idle
          ELSE IF isExpired(CacheEntryParse(cached), now)
          THEN /\ redis' = CacheService_delete(redis, redisUp, CG_Key, now).store
               /\ tasks' = CG_Idle
          ELSE /\ redis' = redis
               /\ tasks' = [pc |-> "write",
                            entry |-> [CacheEntryParse(cached) EXCEPT
                                          !.lastAccessed = now]]
    /\ obs' = [obs EXCEPT !.ops = @ + 1]
    /\ UNCHANGED <<now, redisUp, cfg, connectedClients, sockets, channel>>

\* get(key), line 379: the entry read is written back with its ttl
CG_GetWrite ==
    /\ tasks.pc = "write"
    /\ redis' = setToRedis(redis, redisUp, CacheKey(CG_Key),
                           CacheEntryText(tasks.entry), tasks.entry.ttl, now).store
    /\ tasks' = CG_Idle
    /\ UNCHANGED <<now, redisUp, cfg, obs, connectedClients, sockets, channel>>

CG_Tick ==
    /\ now < CG_MaxTicks * TickMs
    /\ Tick
    /\ UNCHANGED <<redisUp, cfg, tasks, obs, connectedClients, sockets, channel>>

CG_Next ==
    \/ \E value \in CG_Values : CG_Set(value)
    \/ CG_Delete
    \/ CG_GetRead
    \/ CG_GetWrite
    \/ CG_Tick

SpecCacheConc == CG_Init /\ [][CG_Next]_vars

\* C34: once every call has completed, an entry stored for the key holds the
\* value of the last completed set, and no entry is stored when the last
\* completed call that wrote was a delete.
C34_GetKeepsValue ==
    (tasks.pc = "idle" /\ CacheKey(CG_Key) \in DOMAIN redis)
        => /\ obs.last = "set"
           /\ CacheEntryParse(redis[CacheKey(CG_Key)].val).value = obs.value


-----------------------------------------------------------------------------
(* updateSession beside deleteSession, on SpecSession                      *)

\* Before the first time-to-live has elapsed no record can have expired: a
\* record that updateSession has read and that is not stored any more was
\* removed by a deleteSession that completed in between.
C35_Step ==
    \A p \in SC_Procs :
        (/\ now < cfg.ttl * 1000
         /\ SessionService_getSessionKey(tasks[p].id) \notin DOMAIN redis
         /\ SC_UpdateWrite(p))
            => SessionService_getSessionKey(tasks[p].id) \notin DOMAIN redis'

\* C35: once deleteSession(id) has completed the session stays absent until
\* a createSession(id): an updateSession that read the record before the
\* delete does not write it back.
C35_DeletedStaysAbsent == [][C35_Step]_vars


-----------------------------------------------------------------------------
(* SpecFirstMessage: the session part of handleChatMessage (lines 210-230) *)
(* for chat messages handled concurrently; the connection of g1 comes from *)
(* address a1, that of g2 from a2                                          *)

FM_AddressOf(p) == IF p = "g1" THEN "a1" ELSE "a2"

\* obs.rejected: a message was answered SESSION_INVALID
FM_Init ==
    /\ now = 0
    /\ redis = <<>>
    /\ redisUp = TRUE
    /\ cfg \in SC_Configs
    /\ tasks = [p \in SC_Procs |-> SC_Idle]
    /\ obs = [calls |-> 0, rejected |-> FALSE]
    /\ connectedClients = <<>>
    /\ sockets = <<>>
    /\ channel = <<>>

\* lines 211-230: getSession; without session createSession is entered
\* (sampling Date.now(), line 55), with one the session is validated against
\* the client address
FM_Message(p, sessionId) ==
    /\ tasks[p].pc = "idle"
    /\ obs.calls < SC_MaxCalls
    /\ \E got \in {getSession(redis, redisUp, cfg, sessionId, now)} :
          /\ ~got.spins
          /\ tasks' = [tasks EXCEPT ![p] =
                          IF got.found THEN SC_Idle
                          ELSE [SC_Idle EXCEPT !.pc = "create.count", !.id = sessionId,
                                               !.ip = FM_AddressOf(p), !.t0 = now]]
          /\ obs' = [calls |-> obs.calls + 1,
                     rejected |-> got.found
                                  /\ ~validateSession(redis, redisUp, cfg, sessionId,
                                                      FM_AddressOf(p), now).ret]
    /\ UNCHANGED <<now, redis, redisUp, cfg, connectedClients, sockets, channel>>

FM_Next ==
    \/ \E p \in SC_Procs, sessionId \in SC_Ids : FM_Message(p, sessionId)
    \/ \E p \in SC_Procs : SC_CreateCount(p)
    \/ \E p \in SC_Procs : SC_CreateSetex(p)
    \/ \E p \in SC_Procs : SC_CreateSadd(p)
    \/ \E p \in SC_Procs : SC_CreateExpire(p)
    \/ SC_Tick

SpecFirstMessage == FM_Init /\ [][FM_Next]_vars

C36_Step ==
    \A sessionId \in SC_Ids :
        (/\ SessionService_getSessionKey(sessionId) \in DOMAIN redis
         /\ SessionService_getSessionKey(sessionId) \in DOMAIN redis')
            => SessionParse(redis'[SessionService_getSessionKey(sessionId)].val).ipAddress
                  = SessionParse(redis[SessionService_getSessionKey(sessionId)].val).ipAddress

\* C36: the client address stored in a session does not change while the
\* session stays stored, for any interleaving of chat messages, also of two
\* first messages with the same sessionId from different addresses.
C36_AddressStable == [][C36_Step]_vars


-----------------------------------------------------------------------------
\* C37: the id of every unexpired stored session is a member of the address
\* index of the session's client address.
C37_IndexedWhileStored ==
    \A sessionId \in SV_Ids :
        \E found \in {SessionLookup(redis, TRUE, cfg, sessionId, now)} :
            found.kind = "valid"
                => /\ Live(redis, SessionService_getIPKey(found.session.ipAddress), now)
                   /\ sessionId \in redis[SessionService_getIPKey(found.session.ipAddress)].members


-----------------------------------------------------------------------------
(* SpecGatewayOpen: handleConnection in two steps, the call of             *)
(* checkWebSocketConnectionLimit (line 139) and the continuation after its *)
(* await; handleChatMessage runs for any message of a connected socket     *)

\* handleConnection, lines 134-139: up to the await of the connection check
GO_ConnectStart(c, clientIP) ==
    /\ sockets[c].state = "new"
    /\ sockets' = [sockets EXCEPT ![c] = [state |-> "pending", ip |-> clientIP]]
    /\ obs' = [GW_NoObs EXCEPT !.kind = "connecting", !.conn = c, !.inputs = obs.inputs]
    /\ UNCHANGED <<now, redis, redisUp, cfg, tasks, connectedClients, channel>>

\* handleConnection, lines 139-164: the check answers; a rejected socket is
\* disconnected, an admitted one is recorded and welcomed
GO_ConnectFinish(c) ==
    /\ sockets[c].state = "pending"
    /\ \E limit \in {checkRateLimit(redis, redisUp,
                                    getWebSocketConnectionKey(sockets[c].ip),
                                    cfg.connectionsPerIP, now, now)} :
          IF limit.allowed
          THEN /\ redis' = recordRequest(redis, redisUp,
                               getWebSocketConnectionKey(sockets[c].ip),
                               cfg.connectionsPerIP, now)
               /\ sockets' = [sockets EXCEPT ![c].state = "open"]
               /\ obs' = [GW_NoObs EXCEPT !.kind = "connect", !.conn = c,
                             !.inputs = obs.inputs,
                             !.emits = <<Emit(c, ChatMessage("system", "welcome", TRUE))>>]
          ELSE /\ redis' = redis
               /\ sockets' = [sockets EXCEPT ![c].state = "closed"]
               /\ obs' = [GW_NoObs EXCEPT !.kind = "connect", !.conn = c,
                             !.inputs = obs.inputs,
                             !.emits = <<Emit(c, ErrorMessage("CONNECTION_RATE_LIMIT"))>>]
    /\ UNCHANGED <<now, redisUp, cfg, tasks, connectedClients, channel>>

\* handleChatMessage, lines 197-247, for a message of a socket that is
\* connected: the handler does not look at the outcome of handleConnection
GO_ChatMessage(c, data) ==
    /\ sockets[c].state \in {"pending", "open"}
    /\ tasks[c].pc = "idle"
    /\ obs.inputs < GW_MaxInputs
    /\ \E r \in {IF data.message = "" \/ data.sessionId = ""
                 THEN [store |-> redis, code |-> "INVALID_REQUEST", spins |-> FALSE]
                 ELSE AdmitChatMessage(redis, redisUp, cfg, data, sockets[c].ip, now)} :
          /\ ~r.spins
          /\ redis' = r.store
          /\ tasks' = IF r.code = "none"
                      THEN [tasks EXCEPT ![c] = [pc |-> "register", data |-> data]]
                      ELSE tasks
          /\ obs' = [GW_NoObs EXCEPT !.kind = "chat", !.conn = c,
                        !.sessionId = data.sessionId, !.outcome = r.code,
                        !.inputs = obs.inputs + 1,
                        !.emits = IF r.code = "none" THEN <<>>
                                  ELSE <<Emit(c, ErrorMessage(r.code))>>]
    /\ UNCHANGED <<now, redisUp, cfg, connectedClients, sockets, channel>>

GO_Next ==
    \/ \E c \in GW_Conns, clientIP \in GA_Addresses : GO_ConnectStart(c, clientIP)
    \/ \E c \in GW_Conns : GO_ConnectFinish(c)
    \/ \E c \in GW_Conns : GW_Disconnect(c)
    \/ \E c \in GW_Conns, data \in GW_Requests : GO_ChatMessage(c, data)
    \/ \E c \in GW_Conns : GW_Register(c)
    \/ \E c \in GW_Conns, outcome \in {"ok", "empty", "error"} : GW_AgentReturn(c, outcome)
    \/ GW_Tick

SpecGatewayOpen == GC_Init /\ [][GO_Next]_vars

\* a step of handleChatMessage for connection c that creates a session,
\* records quota, writes the registry entry or issues the inference call
GO_Processes(c) ==
    /\ obs'.conn = c
    /\ \/ obs'.kind = "chat" /\ redis' # redis
       \/ obs'.kind = "register"

C38_Step == \A c \in GW_Conns : GO_Processes(c) => sockets[c].state = "open"

\* C38: no chat message of a connection is processed while the connection's
\* rate check at open is pending, nor after the check rejected the connection.
C38_ChatOnlyWhenAdmitted == [][C38_Step]_vars


-----------------------------------------------------------------------------
\* C39: with extend-on-activity disabled every stored session record still
\* carries the store expiry set at its creation, createdAt plus the session
\* time-to-live, after any number of updates.
C39_UpdateKeepsExpiry ==
    ~cfg.extendOnActivity =>
        \A sessionId \in SV_Ids :
            SessionService_getSessionKey(sessionId) \in DOMAIN redis =>
                \E entry \in {redis[SessionService_getSessionKey(sessionId)]} :
                    /\ entry.exp # NoExpiry
                    /\ entry.exp = SessionParse(entry.val).createdAt + cfg.ttl * 1000


-----------------------------------------------------------------------------
(* SpecHealth: the health probes of the Quota Service and of the Session   *)
(* Store, run by concurrent health requests, one step per awaited store    *)
(* call; the store is reachable                                            *)

HP_MaxProbes == 3

HP_Procs == {"h1", "h2"}
HP_Kinds == {"session", "rateLimit"}

\* 'session:health:test' and 'rate_limit:health:test'
HP_TestKey(kind) ==
    IF kind = "session" THEN <<"session", <<"health", "test">>, NoWindow>>
    ELSE <<"rate_limit", <<"health", "test">>, NoWindow>>

\* the value the probe writes, and the value it expects to read back
HP_Written(kind) == IF kind = "session" THEN <<"t", "e", "s", "t">> ELSE <<"1">>
HP_Expected(kind) == IF kind = "session" THEN <<"t", "e", "s", "t">> ELSE <<"2">>

HP_Idle == [pc |-> "idle", kind |-> "none", result |-> Nil]

\* obs.returned[p]: what the last probe of p returned
HP_Init ==
    /\ now = 0
    /\ redis = <<>>
    /\ redisUp = TRUE
    /\ cfg = <<>>
    /\ tasks = [p \in HP_Procs |-> HP_Idle]
    /\ obs = [probes |-> 0, returned |-> [p \in HP_Procs |-> "none"]]
    /\ connectedClients = <<>>
    /\ sockets = <<>>
    /\ channel = <<>>

\* isHealthy: set(testKey, 'test') of the Session Store, set(testKey, '1') of
\* the Quota Service
HP_Set(p, kind) ==
    /\ tasks[p].pc = "idle"
    /\ obs.probes < HP_MaxProbes
    /\ redis' = RedisService_set(redis, redisUp, HP_TestKey(kind), HP_Written(kind), 0, now)
    /\ tasks' = [tasks EXCEPT ![p] =
                    [pc |-> IF kind = "session" THEN "get" ELSE "incr",
                     kind |-> kind, result |-> Nil]]
    /\ obs' = [obs EXCEPT !.probes = @ + 1, !.returned[p] = "none"]
    /\ UNCHANGED <<now, redisUp, cfg, connectedClients, sockets, channel>>

\* RateLimitService.isHealthy: incr(testKey)
HP_Incr(p) ==
    /\ tasks[p].pc = "incr"
    /\ redis' = RedisService_incr(redis, redisUp, HP_TestKey(tasks[p].kind), now).store
    /\ tasks' = [tasks EXCEPT ![p].pc = "get"]
    /\ UNCHANGED <<now, redisUp, cfg, obs, connectedClients, sockets, channel>>

\* isHealthy: result = get(testKey)
HP_Get(p) ==
    /\ tasks[p].pc = "get"
    /\ tasks' = [tasks EXCEPT ![p].pc = "del",
                              ![p].result = RedisService_get(redis, redisUp,
                                                HP_TestKey(tasks[p].kind), now)]
    /\ UNCHANGED <<now, redis, redisUp, cfg, obs, connectedClients, sockets, channel>>

\* isHealthy: del(testKey), then the comparison of the result
HP_Del(p) ==
    /\ tasks[p].pc = "del"
    /\ redis' = RedisService_del(redis, redisUp, {HP_TestKey(tasks[p].kind)}, now).store
    /\ obs' = [obs EXCEPT !.returned[p] =
                  IF tasks[p].result = HP_Expected(tasks[p].kind)
                  THEN "healthy" ELSE "unhealthy"]
    /\ tasks' = [tasks EXCEPT ![p] = HP_Idle]
    /\ UNCHANGED <<now, redisUp, cfg, connectedClients, sockets, channel>>

HP_Next ==
    \/ \E p \in HP_Procs, kind \in HP_Kinds : HP_Set(p, kind)
    \/ \E p \in HP_Procs : HP_Incr(p)
    \/ \E p \in HP_Procs : HP_Get(p)
    \/ \E p \in HP_Procs : HP_Del(p)

SpecHealth == HP_Init /\ [][HP_Next]_vars

\* C40: while the store is reachable every health probe returns healthy, for
\* any interleaving of concurrent probes.
C40_ProbesHealthy == \A p \in HP_Procs : obs.returned[p] # "unhealthy"

=============================================================================
